---- MODULE Spec2Model ----
(***************************************************************************)
(* Model of the search-sweep orchestrator (scripts/run_scraper.py) and of  *)
(* its run store (secure_scraper/storage/sqlite_store.py).                 *)
(*                                                                         *)
(* The store is modelled table by table: search_runs is a sequence of rows *)
(* indexed by the AUTOINCREMENT id, rate_snapshots and hotels are sets of  *)
(* rows.  Every store method is one transaction ("with conn:"), so every   *)
(* store action is atomic: it either commits its whole effect or raises    *)
(* and leaves the tables as they were.                                     *)
(***************************************************************************)
EXTENDS Integers, Sequences, FiniteSets, TLC

VARIABLES
    \* ---- SqliteStore tables
    runs,           \* search_runs: sequence of rows, runs[i].id = i
    destinations,   \* destinations: set of upserted destination keys
    hotels,         \* hotels: set of rows, unique by property_id
    rates,          \* rate_snapshots: set of rows, unique by (run_id, property, room, rate)
    now,            \* the wall clock read by _utc_now()
    \* ---- the last store call issued directly by a caller and what it returned
    call,
    \* ---- orchestrator (run / _execute_destination_runs)
    settings,       \* Settings + the sweeps handed to run()
    pc,             \* position of the orchestrator process
    existing_runs,  \* the map built by _load_existing_runs_map
    batch_idx,      \* index of the sweep batch being executed (sweep-first)
    queue,          \* the `runs` argument of _execute_destination_runs
    qi,             \* index of the scheduled unit in queue
    unit,           \* locals of one loop iteration (run_id, results, ...)
    consecutive_backend_failures,
    context,        \* the BrowserContext held by _execute_destination_runs
    run_context,    \* the BrowserContext held in the local `context` of run()
    client,         \* SearchClient: the locals of one _fetch_properties_page call
    open_contexts,  \* contexts created and not yet closed
    exc,            \* exception propagating out of the sweep, or None
    \* ---- SqliteStore: the asyncio.Lock and the coroutines calling the store
    lock,           \* SqliteStore._lock: the task holding it, or NoTask
    tasks,          \* task -> the store call it issued and its position in it
    db,             \* the database file and the connection: schema version, migrations
    login,          \* LoginFlow.run and TwoStepVerifier.maybe_solve: position and locals
    account,        \* SearchClient: the cached account token and its acquisition
    resolution,     \* _resolve_destinations and _build_sweep_batches: inputs and results
    ctor,           \* SqliteStore.__init__: the arguments and the outcome
    fetch,          \* SearchClient.fetch_properties: the page loop and its result
    otp,            \* OtpResolver.obtain_code: the configuration and the outcome
    \* ---- history variables (not program state)
    hist

storeVars == <<runs, destinations, hotels, rates, now>>
orchVars  == <<settings, pc, existing_runs, batch_idx, queue, qi, unit,
               consecutive_backend_failures, context, open_contexts, exc, run_context,
               client>>
orchLocals == <<settings, existing_runs, batch_idx, queue, qi, unit,
                consecutive_backend_failures, context, open_contexts, exc, run_context,
                client>>
\* the state of the components around the sweep
extVars   == <<lock, tasks, db, login, account, resolution, ctor, fetch, otp>>
vars      == <<runs, destinations, hotels, rates, now, call, settings, pc, existing_runs,
               batch_idx, queue, qi, unit, consecutive_backend_failures, context,
               open_contexts, exc, run_context, client, lock, tasks, db, login, account,
               resolution, ctor, fetch, otp, hist>>

None == "None"

\* None where the value is otherwise a number: a run id (ids start at 1), a context
NoRun == 0
NoContext == 0
NoTask == 0

Range(s) == {s[i] : i \in DOMAIN s}

RECURSIVE SeqsUpTo(_, _)
SeqsUpTo(S, n) ==
    IF n = 0 THEN {<<>>}
    ELSE LET shorter == SeqsUpTo(S, n - 1)
         IN  shorter \cup {Append(s, x) : s \in {t \in shorter : Len(t) = n - 1}, x \in S}

(***************************************************************************)
(* Bounds of the model.                                                    *)
(***************************************************************************)
MaxRuns      == 2   \* rows of search_runs a behaviour may create
MaxClock     == 2   \* distinct clock readings
MaxRecords   == 2   \* length of a record list handed to save_hotels / save_rates
MaxPairs     == 2   \* length of the list handed to fetch_latest_runs_bulk
MaxLimit     == 2   \* values tried for _SQLITE_PARAMETER_LIMIT

(***************************************************************************)
(* Search units: destination x sweep.                                      *)
(***************************************************************************)
DestKeys == {"d1", "d2"}
CheckIns == {1, 2}

\* settings.search_nights default
SearchNights == 3

\* date.isoformat()
isoformat(d) == ToString(d)

\* SearchParams as far as the signature reads it; rooms, adults and the
\* program filter are the same for every unit of a run (they come from settings).
SearchParams(check_in, nights) == [check_in |-> check_in, check_out |-> check_in + nights]

ParamsSet == {SearchParams(c, SearchNights) : c \in CheckIns}

\* SqliteStore._signature: sha1 of the "|"-joined fields; the tuple of the joined
\* fields stands for the digest.  `label or ""` makes None and "" the same.
Signature(destination_key, label, params) ==
    <<destination_key,
      IF label = None THEN "" ELSE label,
      isoformat(params.check_in),
      isoformat(params.check_out)>>

Superseded == "Superseded by new run"

(***************************************************************************)
(* SqliteStore.begin_run                                                   *)
(***************************************************************************)
\* UPDATE search_runs SET status='failed', failure_reason='Superseded by new run'
\* WHERE search_signature=? AND status='running'
\* an UPDATE that demotes no row
DemoteNothing(rows, signature) == rows

\* an UPDATE without `AND status='running'`
DemoteAll(rows, signature) ==
    [i \in DOMAIN rows |->
        IF rows[i].search_signature = signature
        THEN [rows[i] EXCEPT !.status = "failed", !.failure_reason = Superseded]
        ELSE rows[i]]

DemoteRunning(rows, signature) ==
    [i \in DOMAIN rows |->
        IF rows[i].search_signature = signature /\ rows[i].status = "running"
        THEN [rows[i] EXCEPT !.status = "failed", !.failure_reason = Superseded]
        ELSE rows[i]]

\* INSERT INTO search_runs(... status, started_at, search_signature) VALUES(... 'running' ...)
NewRunRow(rows, destination_key, label, params, t) ==
    [id               |-> Len(rows) + 1,
     destination_key  |-> destination_key,
     label            |-> label,
     status           |-> "running",
     started_at       |-> t,
     failure_reason   |-> None,
     total_hotels     |-> 0,
     total_rates      |-> 0,
     search_signature |-> Signature(destination_key, label, params)]

\* begin_run without its UPDATE statement
BeginRunRowsKeepRunning(rows, destination_key, label, params, t) ==
    Append(rows, NewRunRow(rows, destination_key, label, params, t))

BeginRunRows(rows, destination_key, label, params, t) ==
    Append(DemoteRunning(rows, Signature(destination_key, label, params)),
           NewRunRow(rows, destination_key, label, params, t))

(***************************************************************************)
(* SqliteStore.finalize_run / mark_run_failed: UPDATE ... WHERE id=?       *)
(***************************************************************************)
FinalizeRunRows(rows, run_id, total_hotels, total_rates) ==
    [i \in DOMAIN rows |->
        IF rows[i].id = run_id
        THEN [rows[i] EXCEPT !.status = "complete",
                             !.total_hotels = total_hotels,
                             !.total_rates = total_rates]
        ELSE rows[i]]

\* the length mark_run_failed cuts a failure reason to
ReasonLimit == 512

\* text[:n]
Truncate(text, n) == IF Len(text) <= n THEN text ELSE SubSeq(text, 1, n)

\* a mark_run_failed that stores the reason as it is given
MarkRunFailedRowsWholeReason(rows, run_id, reason) ==
    [i \in DOMAIN rows |->
        IF rows[i].id = run_id
        THEN [rows[i] EXCEPT !.status = "failed", !.failure_reason = reason]
        ELSE rows[i]]

\* UPDATE search_runs SET status='failed', failure_reason=reason[:512] WHERE id=?
MarkRunFailedRows(rows, run_id, reason) ==
    [i \in DOMAIN rows |->
        IF rows[i].id = run_id
        THEN [rows[i] EXCEPT !.status = "failed",
                             !.failure_reason = Truncate(reason, ReasonLimit)]
        ELSE rows[i]]

(***************************************************************************)
(* SqliteStore.save_hotels                                                 *)
(***************************************************************************)
\* Python truthiness of an identifier: None and "" are skipped by `if not property_id`
Falsy(x) == x = None \/ x = ""

\* INSERT INTO hotels ... ON CONFLICT(property_id) DO UPDATE: the last record of a
\* property wins; the run id is not stored with the hotel.
UpsertHotel(tbl, record) ==
    {h \in tbl : h.property_id # record.property_id}
        \cup {[property_id |-> record.property_id, summary |-> record.summary]}

RECURSIVE SaveHotelsRows(_, _)
SaveHotelsRows(tbl, records) ==
    IF records = <<>> THEN tbl
    ELSE IF Falsy(Head(records).property_id)
         THEN SaveHotelsRows(tbl, Tail(records))
         ELSE SaveHotelsRows(UpsertHotel(tbl, Head(records)), Tail(records))

(***************************************************************************)
(* SqliteStore.save_rates                                                  *)
(***************************************************************************)
\* _resolve_room_type_id: the given id, or "anon_" + sha1(property|room name|summary)
ResolveRoomTypeId(record) ==
    IF ~Falsy(record.room_type_id)
    THEN <<record.room_type_id>>
    ELSE <<"anon_", record.property_id, record.summary>>

\* _resolve_rate_id: the given id, or "rate_" + sha1(property, room type, summary)
ResolveRateId(record, room_type_id) ==
    IF ~Falsy(record.rate_id)
    THEN <<record.rate_id>>
    ELSE <<"rate_", record.property_id, room_type_id, record.summary>>

RateKey(record) ==
    <<record.property_id,
      ResolveRoomTypeId(record),
      ResolveRateId(record, ResolveRoomTypeId(record))>>

\* the loop over records: skip records without a property id, keep the first
\* record of every (property, room type, rate) key (seen_snapshots)
RECURSIVE RateEntries(_, _, _)
RateEntries(records, seen, acc) ==
    IF records = <<>> THEN acc
    ELSE LET r == Head(records)
         IN  IF Falsy(r.property_id) \/ RateKey(r) \in seen
             THEN RateEntries(Tail(records), seen, acc)
             ELSE RateEntries(Tail(records), seen \cup {RateKey(r)},
                      Append(acc, [property_id  |-> r.property_id,
                                   room_type_id |-> ResolveRoomTypeId(r),
                                   rate_id      |-> ResolveRateId(r, ResolveRoomTypeId(r)),
                                   summary      |-> r.summary]))

SnapshotRow(run_id, e) ==
    [run_id       |-> run_id,
     property_id  |-> e.property_id,
     room_type_id |-> e.room_type_id,
     rate_id      |-> e.rate_id,
     summary      |-> e.summary]

\* save_rates without its DELETE statement
SaveRatesRowsKeepOld(tbl, run_id, records) ==
    tbl \cup {SnapshotRow(run_id, e) : e \in Range(RateEntries(records, {}, <<>>))}

\* DELETE FROM rate_snapshots WHERE run_id=?  then one INSERT per entry
SaveRatesRows(tbl, run_id, records) ==
    {x \in tbl : x.run_id # run_id}
        \cup {SnapshotRow(run_id, e) : e \in Range(RateEntries(records, {}, <<>>))}

\* PRAGMA foreign_keys = ON: room_types and rate_snapshots reference hotels,
\* rate_snapshots references search_runs; a violation raises IntegrityError and
\* the transaction is rolled back.
SaveRatesAccepted(rows, hotelTbl, run_id, records) ==
    LET entries == Range(RateEntries(records, {}, <<>>))
    IN  entries = {}
        \/ (/\ run_id \in DOMAIN rows
            /\ \A e \in entries : \E h \in hotelTbl : h.property_id = e.property_id)

(***************************************************************************)
(* SqliteStore.fetch_latest_run / fetch_latest_runs_bulk                   *)
(***************************************************************************)
\* rows of a signature holding the greatest started_at
LatestOf(rows, signature) ==
    {i \in DOMAIN rows :
        /\ rows[i].search_signature = signature
        /\ \A j \in DOMAIN rows :
              rows[j].search_signature = signature => rows[j].started_at <= rows[i].started_at}

\* ORDER BY started_at DESC LIMIT 1: with equal started_at SQL leaves the row open,
\* so the result is any member of this set (NoRun, for None, when there is no row)
FetchLatestRunResults(rows, destination_key, label, params) ==
    LET latest == LatestOf(rows, Signature(destination_key, label, params))
    IN  IF latest = {} THEN {NoRun} ELSE latest

\* list(dict.fromkeys(signatures))
RECURSIVE OrderedUnique(_, _)
OrderedUnique(s, acc) ==
    IF s = <<>> THEN acc
    ELSE IF Head(s) \in Range(acc)
         THEN OrderedUnique(Tail(s), acc)
         ELSE OrderedUnique(Tail(s), Append(acc, Head(s)))

PairSignatures(pairs, label) ==
    [i \in DOMAIN pairs |-> Signature(pairs[i].key, label, pairs[i].params)]

\* signature_to_key.setdefault(signature, destination.key): the first pair's key
SignatureToKey(pairs, label, signature) ==
    LET first == CHOOSE i \in DOMAIN pairs :
                    /\ PairSignatures(pairs, label)[i] = signature
                    /\ \A j \in DOMAIN pairs :
                          PairSignatures(pairs, label)[j] = signature => i <= j
    IN  pairs[first].key

\* a chunking loop without the `if chunk:` query after the loop
RECURSIVE ChunksWithoutRemainder(_, _, _, _)
ChunksWithoutRemainder(signatures, limit, chunk, done) ==
    IF signatures = <<>>
    THEN done
    ELSE LET grown == Append(chunk, Head(signatures))
         IN  IF Len(grown) >= limit
             THEN ChunksWithoutRemainder(Tail(signatures), limit, <<>>, Append(done, grown))
             ELSE ChunksWithoutRemainder(Tail(signatures), limit, grown, done)

\* the chunking loop: a chunk is queried as soon as it holds `limit` signatures,
\* and the remainder after the loop
RECURSIVE Chunks(_, _, _, _)
Chunks(signatures, limit, chunk, done) ==
    IF signatures = <<>>
    THEN IF chunk # <<>> THEN Append(done, chunk) ELSE done
    ELSE LET grown == Append(chunk, Head(signatures))
         IN  IF Len(grown) >= limit
             THEN Chunks(Tail(signatures), limit, <<>>, Append(done, grown))
             ELSE Chunks(Tail(signatures), limit, grown, done)

\* a chunk query whose JOIN lacks `r.started_at = latest.max_started`: every row of
\* a chunk's signature is returned
QueryChunkAnyRow(rows, pairs, label, chunk, records) ==
    LET found   == {i \in DOMAIN rows : rows[i].search_signature \in Range(chunk)}
        keyOf(i) == SignatureToKey(pairs, label, rows[i].search_signature)
        fresh   == {keyOf(i) : i \in found} \ DOMAIN records
    IN  [k \in DOMAIN records \cup fresh |->
            IF k \in DOMAIN records THEN records[k]
            ELSE {i \in found : keyOf(i) = k}]

\* _query_chunk: the JOIN returns every row of a chunk's signature whose started_at
\* is that signature's MAX(started_at), in no stated order; a row is kept when its
\* key is not in records yet.  records maps a key to the rows that may end up there.
QueryChunk(rows, pairs, label, chunk, records) ==
    LET found   == {i \in DOMAIN rows :
                      /\ rows[i].search_signature \in Range(chunk)
                      /\ i \in LatestOf(rows, rows[i].search_signature)}
        keyOf(i) == SignatureToKey(pairs, label, rows[i].search_signature)
        fresh   == {keyOf(i) : i \in found} \ DOMAIN records
    IN  [k \in DOMAIN records \cup fresh |->
            IF k \in DOMAIN records THEN records[k]
            ELSE {i \in found : keyOf(i) = k}]

RECURSIVE QueryChunks(_, _, _, _, _)
QueryChunks(rows, pairs, label, chunks, records) ==
    IF chunks = <<>> THEN records
    ELSE QueryChunks(rows, pairs, label, Tail(chunks),
                     QueryChunk(rows, pairs, label, Head(chunks), records))

BulkChunks(pairs, label, limit) ==
    Chunks(OrderedUnique(PairSignatures(pairs, label), <<>>), limit, <<>>, <<>>)

\* for every key of the returned map, the rows the call may return for it
FetchLatestRunsBulkCandidates(rows, pairs, label, limit) ==
    IF pairs = <<>> THEN <<>>
    ELSE QueryChunks(rows, pairs, label, BulkChunks(pairs, label, limit), <<>>)

\* the maps the call may return
FetchLatestRunsBulkResults(rows, pairs, label, limit) ==
    LET cands == FetchLatestRunsBulkCandidates(rows, pairs, label, limit)
    IN  {f \in [DOMAIN cands -> DOMAIN rows] : \A k \in DOMAIN cands : f[k] \in cands[k]}

(***************************************************************************)
(* hotels/normalizer.py: build_hotel_and_rate_records                      *)
(***************************************************************************)
\* a payload hotel is [id, summary, rates]; rates lists the rates of all its room
\* types as [room_type_id, rate_id, summary]

\* build_hotel_record: property_id = hotel.get("id") or ""
BuildHotelRecord(hotel) ==
    [property_id |-> IF Falsy(hotel.id) THEN "" ELSE hotel.id, summary |-> hotel.summary]

\* _extract_rate_records: one record per rate of every room type of the hotel
ExtractRateRecords(hotel) ==
    [i \in DOMAIN hotel.rates |->
        [property_id  |-> IF Falsy(hotel.id) THEN "" ELSE hotel.id,
         room_type_id |-> hotel.rates[i].room_type_id,
         rate_id      |-> hotel.rates[i].rate_id,
         summary      |-> hotel.rates[i].summary]]

RECURSIVE BuildRateRecords(_)
BuildRateRecords(hotels_payload) ==
    IF hotels_payload = <<>> THEN <<>>
    ELSE ExtractRateRecords(Head(hotels_payload)) \o BuildRateRecords(Tail(hotels_payload))

BuildHotelRecords(hotels_payload) ==
    [i \in DOMAIN hotels_payload |-> BuildHotelRecord(hotels_payload[i])]

(***************************************************************************)
(* scripts/run_scraper.py: scheduling                                      *)
(***************************************************************************)
\* _SQLITE_PARAMETER_LIMIT
SqliteParameterLimit == 900

\* DateRangeSection.generate: DateSweep(label=current.isoformat(), check_in=current)
DateSweep(check_in) == [label |-> isoformat(check_in), check_in |-> check_in]

\* _DestinationRun
DestinationRun(destination_key, sweep) ==
    [key |-> destination_key, label |-> sweep.label,
     params |-> SearchParams(sweep.check_in, SearchNights)]

\* _build_sweep_batches: one batch per sweep, one run per destination in resolved order
BuildSweepBatches(s) ==
    [b \in DOMAIN s.sweeps |->
        [label |-> s.sweeps[b].label,
         runs  |-> [d \in DOMAIN s.destinations |->
                       DestinationRun(s.destinations[d], s.sweeps[b])]]]

\* _load_existing_runs_map: one bulk lookup per batch; mapping[(key, batch.label)] is
\* the record of the last batch that returned the key under that label
LoadExistingRunsMaps(rows, batches) ==
    LET results(b) == FetchLatestRunsBulkResults(rows, batches[b].runs, batches[b].label,
                                                 SqliteParameterLimit)
        choices == {F \in [DOMAIN batches -> UNION {results(b) : b \in DOMAIN batches}] :
                       \A b \in DOMAIN batches : F[b] \in results(b)}
        keys(F) == {kl \in DestKeys \X {batches[b].label : b \in DOMAIN batches} :
                       \E b \in DOMAIN batches :
                           batches[b].label = kl[2] /\ kl[1] \in DOMAIN F[b]}
        last(F, kl) == CHOOSE b \in DOMAIN batches :
                           /\ batches[b].label = kl[2] /\ kl[1] \in DOMAIN F[b]
                           /\ \A c \in DOMAIN batches :
                                 (batches[c].label = kl[2] /\ kl[1] \in DOMAIN F[c]) => c <= b
    IN  {[kl \in keys(F) |-> rows[F[last(F, kl)][kl[1]]]] : F \in choices}

\* a skip test that holds for any record, whatever its status
LatestExists(existing, run) == <<run.key, run.label>> \in DOMAIN existing

\* existing_runs.get((run.destination.key, run.label)) is a complete record
LatestIsComplete(existing, run) ==
    /\ <<run.key, run.label>> \in DOMAIN existing
    /\ existing[<<run.key, run.label>>].status = "complete"

\* _batch_complete
BatchComplete(batch, existing) ==
    \A i \in DOMAIN batch.runs : LatestIsComplete(existing, batch.runs[i])

\* _pending_runs_exist
PendingRunsExist(batches, existing) ==
    \/ DOMAIN existing = {}
    \/ \E b \in DOMAIN batches : \E i \in DOMAIN batches[b].runs :
          ~LatestIsComplete(existing, batches[b].runs[i])

\* a queue that takes the batches one after the other
BuildQueueBatchByBatch(s) ==
    LET batches == BuildSweepBatches(s)
        nd      == Len(s.destinations)
    IN  [n \in 1..(nd * Len(batches)) |->
            batches[((n - 1) \div nd) + 1].runs[((n - 1) % nd) + 1]]

\* _build_destination_first_queue: for destination in destinations: for batch in batches
BuildDestinationFirstQueue(s) ==
    LET batches == BuildSweepBatches(s)
        nb      == Len(batches)
    IN  [n \in 1..(Len(s.destinations) * nb) |->
            batches[((n - 1) % nb) + 1].runs[((n - 1) \div nb) + 1]]

\* session.new_context(): a new object, none of the contexts in `open`; the callers
\* pass the contexts created so far, closed ones included
\* a helper that leaves the context as it is
LeaveContextOpen(open, c) == open

\* core/browser.py, ensure_close_context: context.close(); an error of close() is
\* logged and swallowed (it means the context has gone already)
EnsureCloseContext(open, c) == open \ {c}

NewContext(open) == CHOOSE c \in 1..(Cardinality(open) + 1) : c \notin open

(***************************************************************************)
(* Initial state: a freshly opened store, no orchestrator process running. *)
(***************************************************************************)
NoUnit ==
    [run_id |-> NoRun, results |-> <<>>, rebuild_attempt |-> 0,
     last_session_error |-> None, backend_failure |-> <<>>,
     hotel_dicts |-> <<>>, rate_dicts |-> <<>>]

\* history of the executions: what an observer of the orchestrator's calls has seen
NoHistory ==
    [execution     |-> 0,        \* executions of run() started so far
     crashed       |-> FALSE,    \* the last execution was stopped from outside
     rows_at_start |-> <<>>,     \* search_runs when the current execution started
     reached       |-> {},       \* units whose loop iteration this execution entered
     fetched       |-> {},       \* units of this execution whose fetch was issued
     begun         |-> {},       \* run ids begun in this execution
     order         |-> <<>>,     \* the units this execution began, in the order begun
     logins        |-> 0,        \* calls of LoginFlow.run that have ended in this execution
     hotels_saved  |-> {},       \* run ids whose save_hotels returned
     rates_saved   |-> {},       \* run ids whose save_rates returned
     upserted      |-> <<>>,     \* run id -> hotel records save_hotels upserted
     streak        |-> 0,        \* BackendUnavailableError outcomes since the last
                                 \* successful unit or the start of the run
     aborted       |-> FALSE,    \* the back-to-back abort was raised in this execution
     attempts      |-> <<>>,     \* outcomes of the fetches of the unit last entered
     counter_at_start |-> 0,     \* consecutive_backend_failures when that unit was entered
     raised        |-> <<>>,     \* <<where, exception>> of the first exception raised
                                 \* while a fetch or a persistence call was awaited
     cleanup_closed    |-> NoContext,  \* the context the last cleanup block closed
     active_at_cleanup |-> NoContext]  \* the context in use when that block ran

\* SearchClient._fetch_properties_page before it is called; returned and raised hold
\* <<>> for nothing and <<value>> otherwise
NoPageFetch ==
    [pc |-> "idle", refresh_attempt |-> 0, use_warmup |-> FALSE,
     posts |-> <<>>,            \* statuses of the direct POSTs issued for the page
     body |-> "",               \* text of the last response
     token_refreshes |-> 0,     \* _ensure_account_token(force_refresh=True) calls
     session_refreshes |-> 0,   \* _refresh_travel_session calls
     events |-> <<>>,           \* the warm-up outcomes and the direct POSTs, in order
     response_status |-> "",    \* status of the response whose JSON was returned
     returned |-> <<>>, raised |-> <<>>]

\* SCHEMA_VERSION = 5
SCHEMA_VERSION == 5

(***************************************************************************)
(* SqliteStore._apply_migrations and the MIGRATIONS scripts.  Of the       *)
(* schema the model keeps the two columns that a script adds or drops.     *)
(***************************************************************************)
Notice  == "hotels.renovation_closure_notice"
RawJson == "rate_snapshots.raw_json"

\* MIGRATIONS[version] can run on a schema with these columns.  1, 2 and 4 hold only
\* CREATE ... IF NOT EXISTS and DROP TABLE IF EXISTS; 3 adds a column, which fails when
\* the column exists; 5 drops a column, which fails when there is no such column
ScriptRuns(version, columns) ==
    CASE version = 3 -> Notice \notin columns
      [] version = 5 -> RawJson \in columns
      [] OTHER -> TRUE

\* the columns after MIGRATIONS[version] ran
ScriptEffect(version, columns) ==
    CASE version = 3 -> columns \cup {Notice}
      [] version = 5 -> columns \ {RawJson}
      [] OTHER -> columns

\* the tracked columns of a database this code has migrated from scratch to version v
RECURSIVE ColumnsAt(_)
ColumnsAt(v) == IF v = 0 THEN {} ELSE ScriptEffect(v, ColumnsAt(v - 1))

\* a store that was initialised on a migrated database: the connection is open; `from`
\* is the version initialize found and `applied` the migrations it ran
NoDatabase ==
    [state |-> "open", version |-> SCHEMA_VERSION, columns |-> ColumnsAt(SCHEMA_VERSION),
     from |-> SCHEMA_VERSION, applied |-> <<>>]

\* context.cookies() as _is_authenticated reads it: the `expires` of the session-token
\* cookie ("absent": no such cookie; "unset": no expiry; "soon": before now + 6 h;
\* "late": after it) and the legacy cookies present
NoCookies == [session |-> "absent", legacy |-> {}]

\* the two-step page after a code was submitted: challenge markers, the account-locked
\* text, an error message, the add-device heading
NoPage == [markers |-> FALSE, locked |-> FALSE, error |-> FALSE, add_device |-> FALSE]

\* no login in progress; serial counts the calls of LoginFlow.run
NoLogin ==
    [pc |-> "idle", serial |-> 0, kind |-> "none", cookies |-> NoCookies,
     url_travel |-> FALSE, submits |-> 0, attempt |-> 0, codes |-> 0, page |-> NoPage,
     polls |-> 0, error |-> None,
     step |-> 0,                 \* the step of _capture_debug_artifacts in progress
     capture_failed |-> "none"]  \* the first step of the capture that failed

\* SearchClient.__init__: self._account_token = None
NoAccount ==
    [pc |-> "idle",              \* "idle", "acquiring" (_fetch_account_token), "page"
     _account_token |-> <<>>,    \* the cached token: <<>> for None
     account_token |-> <<>>,     \* the token the running fetch_properties call uses
     force_refresh |-> FALSE,    \* the acquisition in progress was forced by a denial
     attempt |-> 0,              \* iterations of the loop of _fetch_account_token begun
     refresh_attempt |-> 0,      \* iteration of the loop of _fetch_properties_page
     fetches |-> 0,              \* fetch_properties calls that have ended
     acquisitions |-> 0,         \* _fetch_account_token calls that returned a token
     denied |-> FALSE,           \* a request of this instance was answered 401/403
     exhausted |-> FALSE,        \* the last call ended because range(5) ran out
     error |-> None]             \* what the last fetch_properties call raised

\* nothing resolved: the process has not started
NoResolution == [pc |-> "idle"]

\* no SqliteStore constructed
NoConstruction == [pc |-> "idle"]

\* fetch_properties not called
NoFetch == [pc |-> "idle"]

\* no OtpResolver constructed
NoOtp == [pc |-> "idle"]

\* settings.destination_pause_s as line 500 reads it.  Settings (config/settings.py)
\* declares no such field and allows extras: the attribute is absent unless the
\* configuration supplies it, an extra read from the .env file is a text, and a value
\* passed to the constructor is the number given.
Seconds(n) == [kind |-> "number", seconds |-> n]
AbsentPause == [kind |-> "absent", seconds |-> 0]
TextPause == [kind |-> "text", seconds |-> 0]

DefaultSettings ==
    [destinations |-> <<>>, sweeps |-> <<>>, resume_completed_runs |-> FALSE,
     sweep_priority |-> "sweep-first", max_consecutive_backend_failures |-> 1,
     destination_pause_s |-> Seconds(0)]

\* an empty database and no call made
InitTables ==
    /\ runs = <<>>
    /\ destinations = {}
    /\ hotels = {}
    /\ rates = {}
    /\ now = 1
    /\ call = [op |-> "none"]

InitStore ==
    /\ InitTables
    /\ lock = NoTask
    /\ tasks = <<>>
    /\ db = NoDatabase
    /\ login = NoLogin
    /\ account = NoAccount
    /\ resolution = NoResolution
    /\ ctor = NoConstruction
    /\ fetch = NoFetch /\ otp = NoOtp

InitOrchestrator(s) ==
    /\ settings = s
    /\ pc = "stopped"
    /\ existing_runs = <<>>
    /\ batch_idx = 0
    /\ queue = <<>>
    /\ qi = 0
    /\ unit = NoUnit
    /\ consecutive_backend_failures = 0
    /\ context = NoContext
    /\ run_context = NoContext
    /\ client = NoPageFetch
    /\ open_contexts = {}
    /\ exc = None
    /\ hist = NoHistory

(***************************************************************************)
(* Direct calls of the store API (tests, scripts).  Each records the call  *)
(* and what it returned in `call`.                                         *)
(***************************************************************************)
\* time passes between two calls; two calls may also read the same clock value
Tick ==
    /\ now < MaxClock
    /\ now' = now + 1
    /\ UNCHANGED <<runs, destinations, hotels, rates, call, orchVars, hist>>
    /\ UNCHANGED extVars

ApiBeginRun(destination_key, label, params) ==
    /\ Len(runs) < MaxRuns
    /\ runs' = BeginRunRows(runs, destination_key, label, params, now)
    /\ destinations' = destinations \cup {destination_key}
    /\ call' = [op |-> "begin_run", run_id |-> Len(runs) + 1]
    /\ UNCHANGED <<hotels, rates, now, orchVars, hist>>
    /\ UNCHANGED extVars

ApiFinalizeRun(run_id, total_hotels, total_rates) ==
    /\ runs' = FinalizeRunRows(runs, run_id, total_hotels, total_rates)
    /\ call' = [op |-> "finalize_run", run_id |-> run_id]
    /\ UNCHANGED <<destinations, hotels, rates, now, orchVars, hist>>
    /\ UNCHANGED extVars

ApiMarkRunFailed(run_id, reason) ==
    /\ runs' = MarkRunFailedRows(runs, run_id, reason)
    /\ call' = [op |-> "mark_run_failed", run_id |-> run_id, reason |-> reason,
                raised |-> FALSE]
    /\ UNCHANGED <<destinations, hotels, rates, now, orchVars, hist>>
    /\ UNCHANGED extVars

ApiSaveHotels(run_id, records) ==
    /\ hotels' = SaveHotelsRows(hotels, records)
    /\ call' = [op |-> "save_hotels", run_id |-> run_id]
    /\ UNCHANGED <<runs, destinations, rates, now, orchVars, hist>>
    /\ UNCHANGED extVars

\* `dropped` tells whether the call removed a row of the run that it did not write again
ApiSaveRates(run_id, records) ==
    /\ IF SaveRatesAccepted(runs, hotels, run_id, records)
       THEN /\ rates' = SaveRatesRows(rates, run_id, records)
            /\ call' = [op |-> "save_rates", run_id |-> run_id, records |-> records,
                        raised |-> FALSE,
                        dropped |-> \E x \in rates :
                                       /\ x.run_id = run_id
                                       /\ x \notin SaveRatesRows(rates, run_id, records)]
       ELSE /\ rates' = rates
            /\ call' = [op |-> "save_rates", run_id |-> run_id, records |-> records,
                        raised |-> TRUE, dropped |-> FALSE]
    /\ UNCHANGED <<runs, destinations, hotels, now, orchVars, hist>>
    /\ UNCHANGED extVars

ApiFetchLatestRun(destination_key, label, params) ==
    /\ \E r \in FetchLatestRunResults(runs, destination_key, label, params) :
          call' = [op |-> "fetch_latest_run", key |-> destination_key, label |-> label,
                   params |-> params, result |-> r]
    /\ UNCHANGED <<storeVars, orchVars, hist>>
    /\ UNCHANGED extVars

ApiFetchLatestRunsBulk(pairs, label, limit) ==
    /\ \E f \in FetchLatestRunsBulkResults(runs, pairs, label, limit) :
          call' = [op |-> "fetch_latest_runs_bulk", pairs |-> pairs, label |-> label,
                   limit |-> limit, chunks |-> BulkChunks(pairs, label, limit),
                   result |-> f]
    /\ UNCHANGED <<storeVars, orchVars, hist>>
    /\ UNCHANGED extVars

(***************************************************************************)
(* scripts/run_scraper.py: run() and _execute_destination_runs()           *)
(*                                                                         *)
(* pc: "stopped"    no orchestrator process                                *)
(*     "schedule"   run(): choosing the next queue to execute              *)
(*     "login"      _execute_destination_runs: login_flow.run(context)     *)
(*     "loop"       head of `for scheduled in runs`                        *)
(*     "begin"      head of `for rebuild_attempt in range(2)`              *)
(*     "fetch"      awaiting client.fetch_properties                       *)
(*     "rebuild"    closing the context, opening a new one, logging in     *)
(*     "after_loop" the statements after the rebuild loop                  *)
(*     "pause"      asyncio.sleep(pause_s), lines 501-504                  *)
(*     "store_run_payload", "save_hotels", "save_rates", "finalize_run"    *)
(*     "handler"    the `except Exception` block of the unit               *)
(*     "cleanup"    the inner finally block of run()                       *)
(*     "session_exit" leaving `async with BrowserSession`, closing the store *)
(***************************************************************************)
\* BackendUnavailableError(status, body) as the spec describes it; backend_failure
\* holds <<>> for None and <<failure>> for an exception
BackendFailure1 == [status |-> "503", body |-> "unavailable"]

\* f"Properties API returned HTTP {backend_failure.status}: {backend_failure.body}"
BackendReason(failure) ==
    "Properties API returned HTTP " \o failure.status \o ": " \o failure.body

CurrentRun == queue[qi]

UnitSignature(run) == Signature(run.key, run.label, run.params)

\* the frame of the orchestrator steps that touch no table
StoreUnchanged == UNCHANGED <<runs, destinations, hotels, rates, now, call>>

\* raise exception e inside the unit's try block
RaiseInUnit(e) == pc' = "handler" /\ exc' = e

\* run(), lines 244-264: the run map is loaded when resume is on, a context is opened
StartRun(max_executions) ==
    /\ pc = "stopped"
    /\ hist.execution < max_executions
    /\ existing_runs' \in (IF settings.resume_completed_runs
                           THEN LoadExistingRunsMaps(runs, BuildSweepBatches(settings))
                           ELSE {<<>>})
    /\ context' = NewContext({})
    /\ run_context' = NewContext({})
    /\ open_contexts' = {NewContext({})}
    /\ pc' = "schedule"
    /\ exc' = None
    /\ hist' = [hist EXCEPT !.execution = @ + 1, !.crashed = FALSE, !.rows_at_start = runs,
                            !.reached = {}, !.fetched = {}, !.begun = {},
                            !.order = <<>>, !.logins = 0,
                            !.streak = 0, !.aborted = FALSE, !.attempts = <<>>,
                            !.raised = <<>>]
    /\ UNCHANGED <<settings, batch_idx, queue, qi, unit, consecutive_backend_failures,
                   client>>
    /\ StoreUnchanged
    /\ UNCHANGED extVars

\* _execute_destination_runs, lines 337-338 and the call sites: an empty queue returns
\* at once, another one goes to the login
EnterQueue(q) ==
    /\ queue' = q
    /\ qi' = 0
    /\ pc' = IF q = <<>> THEN "schedule" ELSE "login"

\* run(), lines 265-293
ScheduleDestinationFirst ==
    /\ pc = "schedule"
    /\ settings.sweep_priority = "destination-first"
    /\ IF batch_idx = 0
       THEN /\ batch_idx' = 1
            /\ IF /\ settings.resume_completed_runs
                  /\ ~PendingRunsExist(BuildSweepBatches(settings), existing_runs)
               THEN pc' = "cleanup" /\ UNCHANGED <<queue, qi>>
               ELSE EnterQueue(BuildDestinationFirstQueue(settings))
       ELSE pc' = "cleanup" /\ UNCHANGED <<batch_idx, queue, qi>>
    /\ UNCHANGED <<settings, existing_runs, unit, consecutive_backend_failures, context,
                   open_contexts, exc, hist, run_context,
                   client>>
    /\ StoreUnchanged
    /\ UNCHANGED extVars

\* run(), lines 295-319: one iteration of `for batch in sweep_batches`
ScheduleSweepFirst ==
    /\ pc = "schedule"
    /\ settings.sweep_priority # "destination-first"
    /\ LET batches == BuildSweepBatches(settings)
       IN  IF batch_idx = Len(batches)
           THEN pc' = "cleanup" /\ UNCHANGED <<batch_idx, queue, qi>>
           ELSE /\ batch_idx' = batch_idx + 1
                /\ IF \/ batches[batch_idx + 1].runs = <<>>
                      \/ /\ settings.resume_completed_runs
                         /\ BatchComplete(batches[batch_idx + 1], existing_runs)
                   THEN pc' = "schedule" /\ UNCHANGED <<queue, qi>>
                   ELSE EnterQueue(batches[batch_idx + 1].runs)
    /\ UNCHANGED <<settings, existing_runs, unit, consecutive_backend_failures, context,
                   open_contexts, exc, hist, run_context,
                   client>>
    /\ StoreUnchanged
    /\ UNCHANGED extVars

\* _execute_destination_runs, lines 340-349: the login raises out of the sweep or
\* returns, and then the counter of this call starts at zero
Login(ok) ==
    /\ pc = "login"
    /\ IF ok
       THEN /\ pc' = "loop"
            /\ qi' = 1
            /\ consecutive_backend_failures' = 0
            /\ exc' = exc
       ELSE /\ pc' = "cleanup"
            /\ exc' = "LoginError"
            /\ UNCHANGED <<qi, consecutive_backend_failures>>
    /\ hist' = [hist EXCEPT !.logins = @ + 1]
    /\ UNCHANGED <<settings, existing_runs, batch_idx, queue, unit, context, open_contexts,
                   run_context, client>>
    /\ StoreUnchanged
    /\ UNCHANGED extVars

\* lines 351-389 and 526: end of the queue, skip of a unit whose latest run is
\* complete, or the locals of a new unit
NextUnit ==
    /\ pc = "loop"
    /\ IF qi > Len(queue)
       THEN /\ pc' = "schedule"
            /\ run_context' = context
            /\ UNCHANGED <<qi, unit>>
       ELSE IF existing_runs # <<>> /\ LatestIsComplete(existing_runs, CurrentRun)
            THEN /\ qi' = qi + 1
                 /\ UNCHANGED <<pc, unit, run_context>>
            ELSE /\ pc' = "begin"
                 /\ unit' = NoUnit
                 /\ qi' = qi
                 /\ run_context' = run_context
    /\ hist' = IF qi <= Len(queue) /\ pc' = "begin"
               THEN [hist EXCEPT !.reached = @ \cup {UnitSignature(CurrentRun)},
                                 !.attempts = <<>>,
                                 !.counter_at_start = consecutive_backend_failures]
               ELSE hist
    /\ UNCHANGED <<settings, existing_runs, batch_idx, queue, consecutive_backend_failures,
                   context, open_contexts, exc, client>>
    /\ StoreUnchanged
    /\ UNCHANGED extVars

\* lines 391-398: the rebuild loop is exhausted after two attempts; otherwise the run
\* row is begun unless an earlier attempt of the unit has begun it
BeginRun ==
    /\ pc = "begin"
    /\ IF unit.rebuild_attempt >= 2
       THEN /\ pc' = "after_loop"
            /\ UNCHANGED <<runs, destinations, now, unit, hist>>
       ELSE /\ pc' = "fetch"
            /\ IF unit.run_id = NoRun
               THEN /\ runs' = BeginRunRows(runs, CurrentRun.key, CurrentRun.label,
                                            CurrentRun.params, now)
                    /\ destinations' = destinations \cup {CurrentRun.key}
                    /\ now' = now + 1
                    /\ unit' = [unit EXCEPT !.run_id = Len(runs) + 1]
                    /\ hist' = [hist EXCEPT !.fetched = @ \cup {UnitSignature(CurrentRun)},
                                            !.begun = @ \cup {Len(runs) + 1},
                                            !.order = Append(@, UnitSignature(CurrentRun))]
               ELSE /\ UNCHANGED <<runs, destinations, now, unit>>
                    /\ hist' = [hist EXCEPT !.fetched = @ \cup {UnitSignature(CurrentRun)}]
    /\ UNCHANGED <<hotels, rates, call, settings, existing_runs, batch_idx, queue, qi,
                   consecutive_backend_failures, context, open_contexts, exc, run_context,
                   client>>
    /\ UNCHANGED extVars

\* line 399 returning, lines 400-402; unit.results is <<>> for None and <<payload>>
\* for a payload, the list of the hotels of all pages
FetchReturns(payload) ==
    /\ pc = "fetch"
    /\ unit' = [unit EXCEPT !.results = <<payload>>, !.last_session_error = None,
                            !.backend_failure = <<>>]
    /\ pc' = "after_loop"
    /\ hist' = [hist EXCEPT !.streak = 0, !.attempts = Append(@, "ok")]
    /\ UNCHANGED <<settings, existing_runs, batch_idx, queue, qi,
                   consecutive_backend_failures, context, open_contexts, exc, run_context,
                   client>>
    /\ StoreUnchanged
    /\ UNCHANGED extVars

TransportLoss == {"TargetClosedError", "PatchrightError: context disposed"}

\* line 399 raising, lines 403-465
FetchRaises(e) ==
    /\ pc = "fetch"
    /\ CASE e \in TransportLoss ->
              /\ pc' = "rebuild"
              /\ hist' = [hist EXCEPT !.attempts = Append(@, e)]
              /\ UNCHANGED <<unit, exc>>
         [] e = "SessionRefreshError" ->
              /\ pc' = "rebuild"
              /\ unit' = [unit EXCEPT !.last_session_error = e]
              /\ hist' = [hist EXCEPT !.attempts = Append(@, e)]
              /\ exc' = exc
         [] e = "BackendUnavailableError" ->
              /\ pc' = "after_loop"
              /\ unit' = [unit EXCEPT !.backend_failure = <<BackendFailure1>>]
              /\ hist' = [hist EXCEPT !.streak = @ + 1, !.attempts = Append(@, e)]
              /\ exc' = exc
         [] OTHER ->
              /\ RaiseInUnit(e)
              /\ hist' = [hist EXCEPT !.attempts = Append(@, e),
                                      !.raised = <<"fetch", e>>]
              /\ unit' = unit
    /\ UNCHANGED <<settings, existing_runs, batch_idx, queue, qi,
                   consecutive_backend_failures, context, open_contexts, run_context,
                   client>>
    /\ StoreUnchanged
    /\ UNCHANGED extVars

\* line 399 raising BackendUnavailableError(status, body), lines 458-465
FetchRaisesBackendUnavailable(failure) ==
    /\ pc = "fetch"
    /\ pc' = "after_loop"
    /\ unit' = [unit EXCEPT !.backend_failure = <<failure>>]
    /\ hist' = [hist EXCEPT !.streak = @ + 1,
                            !.attempts = Append(@, "BackendUnavailableError")]
    /\ UNCHANGED <<settings, existing_runs, batch_idx, queue, qi,
                   consecutive_backend_failures, context, open_contexts, exc, run_context,
                   client>>
    /\ StoreUnchanged
    /\ UNCHANGED extVars

\* the task is cancelled (Ctrl-C under asyncio.run) while it awaits the login, the
\* store or the fetch: CancelledError is a BaseException, which no `except` clause of
\* lines 403-465 and 521 catches; only the finally blocks of run() see it
Interrupt ==
    /\ pc \in {"login", "begin", "fetch", "rebuild", "pause", "store_run_payload",
               "save_hotels", "save_rates", "finalize_run"}
    /\ pc' = "cleanup"
    /\ exc' = "CancelledError"
    /\ hist' = IF pc \in {"login", "begin", "rebuild", "pause"} THEN hist
               ELSE [hist EXCEPT !.raised = <<IF pc = "fetch" THEN "fetch" ELSE "persistence",
                                              "CancelledError">>]
    /\ UNCHANGED <<settings, existing_runs, batch_idx, queue, qi, unit,
                   consecutive_backend_failures, context, open_contexts, run_context,
                   client>>
    /\ StoreUnchanged
    /\ UNCHANGED extVars

\* lines 408-417, 430-439, 448-457: ensure_close_context, new_context, login, continue
Rebuild(ok) ==
    /\ pc = "rebuild"
    /\ context' = NewContext(1..context)
    /\ open_contexts' = EnsureCloseContext(open_contexts, context) \cup {NewContext(1..context)}
    /\ IF ok
       THEN /\ unit' = [unit EXCEPT !.rebuild_attempt = @ + 1]
            /\ pc' = "begin"
            /\ exc' = exc
       ELSE /\ RaiseInUnit("LoginError")
            /\ unit' = unit
    /\ hist' = [hist EXCEPT !.logins = @ + 1]
    /\ UNCHANGED <<settings, existing_runs, batch_idx, queue, qi,
                   consecutive_backend_failures, run_context, client>>
    /\ StoreUnchanged
    /\ UNCHANGED extVars

\* line 500: pause_s = max(0.0, settings.destination_pause_s)
PauseS(s) ==
    IF s.destination_pause_s.seconds > 0 THEN s.destination_pause_s.seconds ELSE 0

\* lines 466-504: unrecoverable session, backend failure and its counter, or the
\* normalisation of the payload (and the pause) before the records are stored
AfterLoop ==
    /\ pc = "after_loop"
    /\ IF unit.last_session_error # None
       THEN /\ RaiseInUnit("RuntimeError: Unable to recover session")
            /\ UNCHANGED <<runs, unit, qi, consecutive_backend_failures, hist>>
       ELSE IF unit.backend_failure # <<>>
       THEN /\ runs' = IF unit.run_id # NoRun
                       THEN MarkRunFailedRows(runs, unit.run_id,
                                              BackendReason(unit.backend_failure[1]))
                       ELSE runs
            /\ unit' = [unit EXCEPT !.run_id = NoRun]
            /\ consecutive_backend_failures' = consecutive_backend_failures + 1
            /\ IF consecutive_backend_failures + 1 >= settings.max_consecutive_backend_failures
               THEN /\ RaiseInUnit("RuntimeError: Aborting sweep")
                    /\ hist' = [hist EXCEPT !.aborted = TRUE]
                    /\ qi' = qi
               ELSE /\ pc' = "loop"
                    /\ qi' = qi + 1
                    /\ UNCHANGED <<exc, hist>>
       ELSE /\ consecutive_backend_failures' = 0
            /\ IF unit.results = <<>>
               THEN /\ RaiseInUnit("AssertionError")
                    /\ UNCHANGED <<unit, qi>>
               ELSE IF settings.destination_pause_s.kind = "absent"
               THEN /\ RaiseInUnit("AttributeError")
                    /\ UNCHANGED <<unit, qi>>
               ELSE IF settings.destination_pause_s.kind = "text"
               THEN /\ RaiseInUnit("TypeError")
                    /\ UNCHANGED <<unit, qi>>
               ELSE /\ unit' = [unit EXCEPT
                                  !.hotel_dicts = BuildHotelRecords(unit.results[1]),
                                  !.rate_dicts = BuildRateRecords(unit.results[1])]
                    /\ IF PauseS(settings) > 0
                       THEN pc' = "pause" /\ qi' = qi
                       ELSE IF unit.run_id # NoRun
                       THEN pc' = "store_run_payload" /\ qi' = qi
                       ELSE pc' = "loop" /\ qi' = qi + 1
                    /\ exc' = exc
            /\ UNCHANGED <<runs, hist>>
    /\ UNCHANGED <<destinations, hotels, rates, now, call, settings, existing_runs,
                   batch_idx, queue, context, open_contexts, run_context,
                   client>>
    /\ UNCHANGED extVars

\* lines 501-506: asyncio.sleep(pause_s) returns; the records are stored next
Pause ==
    /\ pc = "pause"
    /\ IF unit.run_id # NoRun
       THEN pc' = "store_run_payload" /\ qi' = qi
       ELSE pc' = "loop" /\ qi' = qi + 1
    /\ UNCHANGED <<settings, existing_runs, batch_idx, queue, unit,
                   consecutive_backend_failures, context, open_contexts, exc, run_context,
                   client, hist>>
    /\ StoreUnchanged
    /\ UNCHANGED extVars

\* line 510: the payload columns of the run row, which no claim reads
StoreRunPayload ==
    /\ pc = "store_run_payload"
    /\ pc' = "save_hotels"
    /\ UNCHANGED <<orchLocals, hist>>
    /\ StoreUnchanged
    /\ UNCHANGED extVars

\* line 511
SaveHotels ==
    /\ pc = "save_hotels"
    /\ hotels' = SaveHotelsRows(hotels, unit.hotel_dicts)
    /\ hist' = [hist EXCEPT
                  !.hotels_saved = @ \cup {unit.run_id},
                  !.upserted = (unit.run_id :>
                                  Cardinality({i \in DOMAIN unit.hotel_dicts :
                                                  ~Falsy(unit.hotel_dicts[i].property_id)}))
                               @@ @]
    /\ pc' = "save_rates"
    /\ UNCHANGED <<runs, destinations, rates, now, call, orchLocals>>
    /\ UNCHANGED extVars

\* line 512
SaveRates ==
    /\ pc = "save_rates"
    /\ IF SaveRatesAccepted(runs, hotels, unit.run_id, unit.rate_dicts)
       THEN /\ rates' = SaveRatesRows(rates, unit.run_id, unit.rate_dicts)
            /\ hist' = [hist EXCEPT !.rates_saved = @ \cup {unit.run_id}]
            /\ pc' = "finalize_run"
            /\ exc' = exc
       ELSE /\ RaiseInUnit("IntegrityError")
            /\ hist' = [hist EXCEPT !.raised = <<"persistence", "IntegrityError">>]
            /\ rates' = rates
    /\ UNCHANGED <<runs, destinations, hotels, now, call, settings, existing_runs, batch_idx,
                   queue, qi, unit, consecutive_backend_failures, context, open_contexts, run_context,
                   client>>
    /\ UNCHANGED extVars

\* lines 513-520
FinalizeRun ==
    /\ pc = "finalize_run"
    /\ runs' = FinalizeRunRows(runs, unit.run_id, Len(unit.hotel_dicts), Len(unit.rate_dicts))
    /\ unit' = [unit EXCEPT !.run_id = NoRun]
    /\ qi' = qi + 1
    /\ pc' = "loop"
    /\ UNCHANGED <<destinations, hotels, rates, now, call, settings, existing_runs, batch_idx,
                   queue, consecutive_backend_failures, context, open_contexts, exc, hist, run_context,
                   client>>
    /\ UNCHANGED extVars

\* a store call that raises and whose exception is dropped: the next call is made
StoreRaisesUnnoticed ==
    /\ pc \in {"store_run_payload", "save_hotels", "save_rates"}
    /\ pc' = "finalize_run"
    /\ UNCHANGED <<settings, existing_runs, batch_idx, queue, qi, unit,
                   consecutive_backend_failures, context, open_contexts, exc, hist, run_context,
                   client>>
    /\ StoreUnchanged
    /\ UNCHANGED extVars

\* one of the four store calls of lines 510-519 raises (database locked, disk full):
\* its transaction is rolled back
StoreRaises ==
    /\ pc \in {"store_run_payload", "save_hotels", "save_rates", "finalize_run"}
    /\ RaiseInUnit("OperationalError")
    /\ hist' = [hist EXCEPT !.raised = <<"persistence", "OperationalError">>]
    /\ UNCHANGED <<settings, existing_runs, batch_idx, queue, qi, unit,
                   consecutive_backend_failures, context, open_contexts, run_context,
                   client>>
    /\ StoreUnchanged
    /\ UNCHANGED extVars

\* str(exc): the message of the exceptions the orchestrator raises itself, and for
\* the others the text that names them here
Str(e) ==
    CASE e = "AssertionError" -> ""
      [] e = "RuntimeError: Unable to recover session" -> "Unable to recover session"
      [] e = "RuntimeError: Aborting sweep" -> "Aborting sweep after back-to-back API failures"
      [] OTHER -> e

\* a handler that marks the run failed and goes on with the next unit
HandlerContinues ==
    /\ pc = "handler"
    /\ runs' = IF unit.run_id # NoRun
               THEN MarkRunFailedRows(runs, unit.run_id, Str(exc))
               ELSE runs
    /\ pc' = "loop"
    /\ qi' = qi + 1
    /\ exc' = None
    /\ UNCHANGED <<destinations, hotels, rates, now, call, settings, existing_runs, batch_idx,
                   queue, unit, consecutive_backend_failures, context, open_contexts,
                   run_context, client, hist>>
    /\ UNCHANGED extVars

\* lines 521-524: mark the run failed with str(exc) and re-raise out of the sweep
Handler ==
    /\ pc = "handler"
    /\ runs' = IF unit.run_id # NoRun
               THEN MarkRunFailedRows(runs, unit.run_id, Str(exc))
               ELSE runs
    /\ pc' = "cleanup"
    /\ UNCHANGED <<destinations, hotels, rates, now, call, settings, existing_runs, batch_idx,
                   queue, qi, unit, consecutive_backend_failures, context, open_contexts,
                   exc, hist, run_context,
                   client>>
    /\ UNCHANGED extVars

\* line 523 raising: mark_run_failed fails (database locked, disk full), its exception
\* leaves the handler in place of the one being handled and the row stays as it was
HandlerRaises ==
    /\ pc = "handler"
    /\ unit.run_id # NoRun
    /\ pc' = "cleanup"
    /\ exc' = "OperationalError"
    /\ UNCHANGED <<settings, existing_runs, batch_idx, queue, qi, unit,
                   consecutive_backend_failures, context, open_contexts, run_context,
                   client, hist>>
    /\ StoreUnchanged
    /\ UNCHANGED extVars

\* the state of the locals when no process runs
ProcessGone ==
    /\ pc' = "stopped"
    /\ existing_runs' = <<>>
    /\ batch_idx' = 0
    /\ queue' = <<>>
    /\ qi' = 0
    /\ unit' = NoUnit
    /\ consecutive_backend_failures' = 0
    /\ context' = NoContext
    /\ run_context' = NoContext

\* run(), lines 320-322: the finally block closes the context held in the local
\* `context` of run(), which _execute_destination_runs rebinds only by returning
Cleanup ==
    /\ pc = "cleanup"
    /\ open_contexts' = EnsureCloseContext(open_contexts, run_context)
    /\ pc' = "session_exit"
    /\ hist' = [hist EXCEPT !.cleanup_closed = run_context, !.active_at_cleanup = context]
    /\ UNCHANGED <<settings, existing_runs, batch_idx, queue, qi, unit,
                   consecutive_backend_failures, context, run_context, client, exc>>
    /\ StoreUnchanged
    /\ UNCHANGED extVars

\* run(), lines 255 and 323-325: BrowserSession.__aexit__ closes the browser and, with
\* it, every context still open; the store is closed; the process ends with the
\* exception in exc, if any
SessionExit ==
    /\ pc = "session_exit"
    /\ open_contexts' = {}
    /\ ProcessGone
    /\ UNCHANGED <<settings, client, exc, hist>>
    /\ StoreUnchanged
    /\ UNCHANGED extVars

\* the process is stopped from outside (kill, power loss) at any point: no handler and
\* no finally block runs, and the browser goes with it
Crash ==
    /\ pc # "stopped"
    /\ open_contexts' = {}
    /\ ProcessGone
    /\ exc' = "killed"
    /\ hist' = [hist EXCEPT !.crashed = TRUE]
    /\ UNCHANGED <<settings, client>>
    /\ StoreUnchanged
    /\ UNCHANGED extVars

(***************************************************************************)
(* SpecStore: any sequence of the mutating store calls.                    *)
(***************************************************************************)
RunIds == 1..(MaxRuns + 1)       \* the ids rows may have, and one id no row has

Params1 == SearchParams(1, SearchNights)
Hotel1 == [property_id |-> "h1", summary |-> "s1"]
Rate1 == [property_id |-> "h1", room_type_id |-> "rt1", rate_id |-> "q1", summary |-> "s1"]

InitSpecStore == InitStore /\ InitOrchestrator(DefaultSettings)

NextStore ==
    \/ \E d \in DestKeys : ApiBeginRun(d, None, Params1)
    \/ \E id \in RunIds : ApiFinalizeRun(id, 1, 1)
    \/ \E id \in RunIds : ApiMarkRunFailed(id, "boom")
    \/ \E id \in RunIds : ApiSaveHotels(id, <<Hotel1>>)
    \/ \E id \in RunIds : ApiSaveRates(id, <<Rate1>>)

SpecStore == InitSpecStore /\ [][NextStore]_vars

\* C1: after any sequence of begin_run, finalize_run, mark_run_failed, save_hotels and
\* save_rates calls, no two rows of search_runs with the same search_signature are
\* both 'running'.
AtMostOneRunningPerSignature ==
    \A i, j \in DOMAIN runs :
        (/\ runs[i].status = "running"
         /\ runs[j].status = "running"
         /\ runs[i].search_signature = runs[j].search_signature) => i = j

\* C38 as stated: finalize_run changes only a row that is 'running'; called with the
\* id of a row that is not running, or with an id no row has, it leaves the status of
\* every row as it was.
FinalizeRunChangesRunningRowOnly ==
    [][(/\ call'.op = "finalize_run"
        /\ ~\E i \in DOMAIN runs : runs[i].id = call'.run_id /\ runs[i].status = "running")
          => (/\ DOMAIN runs' = DOMAIN runs
              /\ \A i \in DOMAIN runs : runs'[i].status = runs[i].status)]_vars

\* C1 witness: a second begin_run of a signature found the first row running, and
\* the table holds the demoted row next to the new running one.
SecondRunOfSignatureBegun ==
    /\ call.op = "begin_run"
    /\ \E i, j \in DOMAIN runs :
          /\ i < j
          /\ runs[i].search_signature = runs[j].search_signature
          /\ runs[i].status = "failed" /\ runs[i].failure_reason = Superseded
          /\ runs[j].status = "running"

(***************************************************************************)
(* SpecRates: runs are begun, hotels saved, and rate lists saved again and *)
(* again for the same and for other run ids.                               *)
(***************************************************************************)
\* normalized rate records: the same key with another content, a record whose rate
\* id the backend omitted, a record without a property id, a record of a property
\* that save_hotels never stored
RateDicts ==
    {Rate1,
     [Rate1 EXCEPT !.summary = "s2"],
     [Rate1 EXCEPT !.rate_id = None],
     [Rate1 EXCEPT !.property_id = ""],
     [Rate1 EXCEPT !.property_id = "h2"]}

RateLists == SeqsUpTo(RateDicts, MaxRecords)

NextRates ==
    \/ ApiBeginRun("d1", None, Params1)
    \/ \E id \in RunIds : ApiSaveHotels(id, <<Hotel1>>)
    \/ \E id \in RunIds, recs \in RateLists : ApiSaveRates(id, recs)

SpecRates == InitSpecStore /\ [][NextRates]_vars

\* the keys a record list asks rows for: one per distinct (property, room type, rate)
\* among its records that carry a property id
KeysOf(records) == {RateKey(r) : r \in {q \in Range(records) : ~Falsy(q.property_id)}}

RowsOfRun(tbl, run_id) == {x \in tbl : x.run_id = run_id}

\* the rows of a run are exactly the rows of the list: one row per key of the list,
\* each carrying the content of a record of the list with that key
ExactlyRowsOf(tbl, run_id, records) ==
    /\ {<<x.property_id, x.room_type_id, x.rate_id>> : x \in RowsOfRun(tbl, run_id)}
          = KeysOf(records)
    /\ Cardinality(RowsOfRun(tbl, run_id)) = Cardinality(KeysOf(records))
    /\ \A x \in RowsOfRun(tbl, run_id) :
          \E i \in DOMAIN records :
              /\ RateKey(records[i]) = <<x.property_id, x.room_type_id, x.rate_id>>
              /\ records[i].summary = x.summary

Pairs == [key : DestKeys, params : ParamsSet]
PairLists == SeqsUpTo(Pairs, MaxPairs)

NextLookup ==
    \/ Tick
    \/ \E d \in DestKeys, p \in ParamsSet : ApiBeginRun(d, None, p)
    \/ \E id \in RunIds : ApiFinalizeRun(id, 1, 1)
    \/ \E d \in DestKeys, p \in ParamsSet : ApiFetchLatestRun(d, None, p)
    \/ \E pairs \in PairLists, limit \in 1..MaxLimit :
          ApiFetchLatestRunsBulk(pairs, None, limit)

SpecLookup == InitSpecStore /\ [][NextLookup]_vars

\* pairs of the list that carry the same destination key carry the same signature
KeysDetermineSignature(pairs, label) ==
    \A i, j \in DOMAIN pairs :
        pairs[i].key = pairs[j].key =>
            PairSignatures(pairs, label)[i] = PairSignatures(pairs, label)[j]

\* no two rows of a signature of the list share that signature's greatest started_at
NoTiedLatest(rows, pairs, label) ==
    \A i \in DOMAIN pairs : Cardinality(LatestOf(rows, PairSignatures(pairs, label)[i])) <= 1

\* the map holds a pair's key exactly when a row of the pair's signature exists, holds
\* no other key, and the record under the key is the row fetch_latest_run returns for
\* the pair: a row of the pair's signature that no row of the signature started after
BulkMatchesSingleLookups(rows, pairs, label, result) ==
    /\ \A k \in DOMAIN result : \E i \in DOMAIN pairs : pairs[i].key = k
    /\ \A i \in DOMAIN pairs :
          LET k   == pairs[i].key
              sig == PairSignatures(pairs, label)[i]
          IN  /\ k \in DOMAIN result <=> \E j \in DOMAIN rows : rows[j].search_signature = sig
              /\ k \in DOMAIN result =>
                    /\ FetchLatestRunResults(rows, k, label, pairs[i].params) = {result[k]}
                    /\ rows[result[k]].search_signature = sig
                    /\ \A j \in DOMAIN rows :
                          rows[j].search_signature = sig =>
                              rows[j].started_at <= rows[result[k]].started_at

\* C7 as stated: for any store contents and any list of pairs, the map returned by
\* fetch_latest_runs_bulk holds a destination key exactly when a row exists for that
\* pair's signature, and the record is the row fetch_latest_run returns for the pair.
BulkLookupMatchesForAnyList ==
    call.op = "fetch_latest_runs_bulk" =>
        BulkMatchesSingleLookups(runs, call.pairs, call.label, call.result)

\* C7 amended: the same, for lists in which pairs with the same destination key have
\* the same signature, and stores in which the most recently started row of each
\* looked-up signature is unique.
BulkLookupMatchesWhenKeysDetermineSignature ==
    (/\ call.op = "fetch_latest_runs_bulk"
     /\ KeysDetermineSignature(call.pairs, call.label)
     /\ NoTiedLatest(runs, call.pairs, call.label)) =>
        BulkMatchesSingleLookups(runs, call.pairs, call.label, call.result)

\* C7 witness: a bulk lookup over two destinations returned the later of two rows of
\* one signature and no key for the other destination, which has no row.
BulkLookupOverSeveralRows ==
    /\ call.op = "fetch_latest_runs_bulk"
    /\ KeysDetermineSignature(call.pairs, call.label)
    /\ NoTiedLatest(runs, call.pairs, call.label)
    /\ \E i, j \in DOMAIN call.pairs :
          /\ call.pairs[i].key \in DOMAIN call.result
          /\ call.pairs[j].key \notin DOMAIN call.result
          /\ Cardinality({r \in DOMAIN runs :
                 runs[r].search_signature = PairSignatures(call.pairs, call.label)[i]}) = 2

\* the signatures a list of chunks passes to its queries, one per position
ChunkPositions(chunks) ==
    {pos \in (DOMAIN chunks) \X (1..MaxPairs) : pos[2] <= Len(chunks[pos[1]])}

\* every distinct signature of the list is passed to exactly one query, no other
\* signature is passed, and no query gets more than `limit` parameters
ChunksPartition(pairs, label, limit, chunks) ==
    /\ \A c \in DOMAIN chunks : Len(chunks[c]) >= 1 /\ Len(chunks[c]) <= limit
    /\ \A sig \in Range(PairSignatures(pairs, label)) :
          Cardinality({pos \in ChunkPositions(chunks) : chunks[pos[1]][pos[2]] = sig}) = 1
    /\ \A pos \in ChunkPositions(chunks) :
          chunks[pos[1]][pos[2]] \in Range(PairSignatures(pairs, label))

\* the maps one query over all distinct signatures of the list may return
UnchunkedLookupResults(rows, pairs, label) ==
    LET all   == OrderedUnique(PairSignatures(pairs, label), <<>>)
        cands == IF pairs = <<>> THEN <<>> ELSE QueryChunk(rows, pairs, label, all, <<>>)
    IN  {f \in [DOMAIN cands -> DOMAIN rows] : \A k \in DOMAIN cands : f[k] \in cands[k]}

\* C8 as stated: for every limit and every input list the chunks partition the distinct
\* signatures within the limit, and the lookup returns what one unchunked lookup over
\* all signatures returns.
ChunkedLookupEqualsUnchunkedForAnyList ==
    call.op = "fetch_latest_runs_bulk" =>
        /\ ChunksPartition(call.pairs, call.label, call.limit, call.chunks)
        /\ FetchLatestRunsBulkResults(runs, call.pairs, call.label, call.limit)
              = UnchunkedLookupResults(runs, call.pairs, call.label)

\* C8 amended: for every limit and every input list the chunks partition the distinct
\* signatures within the limit; the lookup returns what one unchunked lookup returns
\* when pairs with the same destination key have the same signature.
ChunkedLookupEqualsUnchunkedWhenKeysDetermineSignature ==
    call.op = "fetch_latest_runs_bulk" =>
        /\ ChunksPartition(call.pairs, call.label, call.limit, call.chunks)
        /\ KeysDetermineSignature(call.pairs, call.label) =>
              /\ FetchLatestRunsBulkResults(runs, call.pairs, call.label, call.limit)
                    = UnchunkedLookupResults(runs, call.pairs, call.label)
              /\ call.result \in UnchunkedLookupResults(runs, call.pairs, call.label)

\* C8 witness: a lookup over more distinct signatures than the limit ran two queries
\* and returned a row for each of two destinations.
LookupSplitIntoChunks ==
    /\ call.op = "fetch_latest_runs_bulk"
    /\ KeysDetermineSignature(call.pairs, call.label)
    /\ Len(call.chunks) = 2
    /\ Cardinality(DOMAIN call.result) = 2

(***************************************************************************)
(* SpecSweep: one execution of the orchestrator over a 2 x 2 matrix, under *)
(* both scheduling orders, every fetch ending in any of its outcomes.      *)
(***************************************************************************)
MaxThreshold == 2    \* values of max_consecutive_backend_failures: 1..MaxThreshold

RawRate1 == [room_type_id |-> "rt1", rate_id |-> "q1", summary |-> "s1"]
Payload1 == <<[id |-> "h1", summary |-> "s1", rates |-> <<RawRate1>>]>>

FetchErrors ==
    TransportLoss \cup {"SessionRefreshError", "BackendUnavailableError", "PatchrightError"}

SweepSettings ==
    {[destinations |-> <<"d1", "d2">>,
      sweeps |-> <<DateSweep(1), DateSweep(2)>>,
      resume_completed_runs |-> FALSE,
      sweep_priority |-> p,
      max_consecutive_backend_failures |-> m,
      destination_pause_s |-> Seconds(0)] :
        p \in {"sweep-first", "destination-first"}, m \in 1..MaxThreshold}

InitSpecSweep == InitStore /\ \E s \in SweepSettings : InitOrchestrator(s)

NextSweep ==
    \/ StartRun(1)
    \/ ScheduleDestinationFirst
    \/ ScheduleSweepFirst
    \/ \E ok \in BOOLEAN : Login(ok)
    \/ NextUnit
    \/ BeginRun
    \/ FetchReturns(Payload1)
    \/ \E e \in FetchErrors : FetchRaises(e)
    \/ \E ok \in BOOLEAN : Rebuild(ok)
    \/ AfterLoop
    \/ StoreRunPayload
    \/ SaveHotels
    \/ SaveRates
    \/ FinalizeRun
    \/ Handler
    \/ Cleanup
    \/ SessionExit

SpecSweep == InitSpecSweep /\ [][NextSweep]_vars

\* C3 as stated: under either scheduling order the back-to-back abort is raised only
\* when the number of BackendUnavailableError outcomes since the last successful unit
\* (or the start of the run) has reached max_consecutive_backend_failures, and once
\* that number is reached the sweep goes on to no further unit: it is at the
\* statements that count the failure, or it has raised.
BackendAbortExactlyAtThreshold ==
    /\ hist.aborted => hist.streak >= settings.max_consecutive_backend_failures
    /\ hist.streak >= settings.max_consecutive_backend_failures =>
          (pc = "after_loop" \/ exc # None)

(***************************************************************************)
(* SpecResume: executions of the orchestrator follow one another on the    *)
(* same store; an execution ends by itself or is stopped at any point.     *)
(***************************************************************************)
MaxExecutions == 2   \* executions of run() in a behaviour

ResumeSettings ==
    {[destinations |-> <<"d1", "d2">>,
      sweeps |-> <<DateSweep(1)>>,
      resume_completed_runs |-> r,
      sweep_priority |-> p,
      max_consecutive_backend_failures |-> MaxThreshold,
      destination_pause_s |-> Seconds(0)] :
        r \in BOOLEAN, p \in {"sweep-first", "destination-first"}}

InitSpecResume == InitStore /\ \E s \in ResumeSettings : InitOrchestrator(s)

NextResume ==
    \/ StartRun(MaxExecutions)
    \/ ScheduleDestinationFirst
    \/ ScheduleSweepFirst
    \/ \E ok \in BOOLEAN : Login(ok)
    \/ NextUnit
    \/ BeginRun
    \/ FetchReturns(Payload1)
    \/ \E e \in FetchErrors : FetchRaises(e)
    \/ \E ok \in BOOLEAN : Rebuild(ok)
    \/ AfterLoop
    \/ StoreRunPayload
    \/ SaveHotels
    \/ SaveRates
    \/ FinalizeRun
    \/ StoreRaises
    \/ Handler
    \/ Cleanup
    \/ SessionExit
    \/ Crash

SpecResume == InitSpecResume /\ [][NextResume]_vars

\* the units of the destination x sweep matrix
ScheduledUnits ==
    LET batches == BuildSweepBatches(settings)
    IN  {batches[b].runs[i] : b \in DOMAIN batches, i \in DOMAIN settings.destinations}

\* the status of the unit's most recently started row when the execution started
StatusAtStart(u) ==
    LET latest == LatestOf(hist.rows_at_start, UnitSignature(u))
    IN  IF latest = {} THEN "none" ELSE hist.rows_at_start[CHOOSE i \in latest : TRUE].status

\* the rows begun for the unit since the execution started
NewRowsOf(u) ==
    {i \in DOMAIN runs :
        i > Len(hist.rows_at_start) /\ runs[i].search_signature = UnitSignature(u)}

\* the rows the unit had when the execution started are as they were
OldRowsUnchanged(u) ==
    \A i \in DOMAIN hist.rows_at_start :
        hist.rows_at_start[i].search_signature = UnitSignature(u)
            => runs[i] = hist.rows_at_start[i]

\* the sweep has entered the unit's iteration and its begin_run step is behind it
PastBeginStep(u) ==
    /\ UnitSignature(u) \in hist.reached
    /\ ~hist.crashed
    /\ ~(pc = "begin" /\ unit.run_id = NoRun /\ UnitSignature(CurrentRun) = UnitSignature(u))

\* the execution ran to its end and raised nothing
EndedNormally == pc = "stopped" /\ hist.execution >= 1 /\ ~hist.crashed /\ exc = None

\* C2: with resume enabled, an execution never calls begin_run for a unit whose latest
\* run was complete when it started and leaves that unit's rows unchanged; for a unit
\* whose latest run was failed it begins at most one new row, and exactly one once the
\* sweep is past the unit's begin step or has ended without raising.
ResumeSkipsCompleteAndRetriesFailed ==
    (settings.resume_completed_runs /\ hist.execution >= 1) =>
        \A u \in ScheduledUnits :
            /\ StatusAtStart(u) = "complete" =>
                  /\ NewRowsOf(u) = {}
                  /\ UnitSignature(u) \notin hist.reached
                  /\ OldRowsUnchanged(u)
            /\ StatusAtStart(u) = "failed" =>
                  /\ Cardinality(NewRowsOf(u)) <= 1
                  /\ (PastBeginStep(u) \/ EndedNormally) => Cardinality(NewRowsOf(u)) = 1

\* C2 witness: a resumed execution ended without raising; it found one unit complete
\* and one failed, left the first alone and began one new row for the second.
ResumedOverCompleteAndFailed ==
    /\ settings.resume_completed_runs /\ EndedNormally
    /\ \E u, v \in ScheduledUnits :
          /\ StatusAtStart(u) = "complete" /\ NewRowsOf(u) = {}
          /\ StatusAtStart(v) = "failed" /\ Cardinality(NewRowsOf(v)) = 1

\* C9: when an execution with resume enabled starts on a store where a unit's latest
\* row is still 'running' (the process stopped between begin_run and finalize_run or
\* mark_run_failed), then once the sweep is past the unit's begin step, or has ended
\* without raising, the stale row is failed with reason 'Superseded by new run' and
\* exactly one new row was begun for the unit; units that were complete are not fetched.
StaleRunningRowIsRetried ==
    (settings.resume_completed_runs /\ hist.execution >= 1) =>
        \A u \in ScheduledUnits :
            /\ (StatusAtStart(u) = "running" /\ (PastBeginStep(u) \/ EndedNormally)) =>
                  /\ Cardinality(NewRowsOf(u)) = 1
                  /\ \A i \in LatestOf(hist.rows_at_start, UnitSignature(u)) :
                        runs[i].status = "failed" /\ runs[i].failure_reason = Superseded
            /\ StatusAtStart(u) = "complete" => UnitSignature(u) \notin hist.fetched

\* C9 witness: the execution after a stop found one unit complete and one left running,
\* did not fetch the first, and superseded the stale row of the second with a new row.
ResumedAfterStop ==
    /\ settings.resume_completed_runs /\ hist.execution = 2 /\ pc = "fetch"
    /\ \E u, v \in ScheduledUnits :
          /\ StatusAtStart(u) = "complete" /\ UnitSignature(u) \notin hist.fetched
          /\ StatusAtStart(v) = "running" /\ Cardinality(NewRowsOf(v)) = 1
          /\ \A i \in LatestOf(hist.rows_at_start, UnitSignature(v)) :
                runs[i].failure_reason = Superseded

\* one step of the table: no row goes away or changes its id, a new row is 'running',
\* a running row stays running or becomes complete or failed, a complete or failed
\* row keeps its status
RowLifecycleStep ==
    /\ Len(runs') >= Len(runs)
    /\ \A i \in DOMAIN runs' :
          IF i \in DOMAIN runs
          THEN /\ runs'[i].id = runs[i].id
               /\ runs'[i].status \in {"running", "complete", "failed"}
               /\ runs[i].status # "running" => runs'[i].status = runs[i].status
          ELSE runs'[i].id = i /\ runs'[i].status = "running"

Payloads ==
    {<<>>,
     Payload1,
     <<[id |-> None, summary |-> "s1", rates |-> <<RawRate1>>]>>,
     <<[id |-> "h1", summary |-> "s1", rates |-> <<RawRate1, RawRate1>>]>>}

PersistSettings ==
    {[destinations |-> <<"d1">>,
      sweeps |-> <<DateSweep(1)>>,
      resume_completed_runs |-> r,
      sweep_priority |-> p,
      max_consecutive_backend_failures |-> 1,
      destination_pause_s |-> Seconds(0)] :
        r \in BOOLEAN, p \in {"sweep-first", "destination-first"}}

InitSpecPersist == InitStore /\ \E s \in PersistSettings : InitOrchestrator(s)

NextPersist ==
    \/ StartRun(MaxExecutions)
    \/ ScheduleDestinationFirst
    \/ ScheduleSweepFirst
    \/ \E ok \in BOOLEAN : Login(ok)
    \/ NextUnit
    \/ BeginRun
    \/ \E payload \in Payloads : FetchReturns(payload)
    \/ \E e \in FetchErrors : FetchRaises(e)
    \/ \E ok \in BOOLEAN : Rebuild(ok)
    \/ AfterLoop
    \/ StoreRunPayload
    \/ SaveHotels
    \/ SaveRates
    \/ FinalizeRun
    \/ StoreRaises
    \/ Handler
    \/ Cleanup
    \/ SessionExit
    \/ Crash

SpecPersist == InitSpecPersist /\ [][NextPersist]_vars

\* C4 as stated: every row the orchestrator finalized as 'complete' carries as
\* total_rates the number of rate_snapshots rows stored for its run id and as
\* total_hotels the number of hotel records save_hotels upserted for it.
TotalsMatchWhatWasSaved ==
    \A i \in DOMAIN runs :
        runs[i].status = "complete" =>
            /\ runs[i].total_rates = Cardinality(RowsOfRun(rates, i))
            /\ i \in DOMAIN hist.upserted
            /\ runs[i].total_hotels = hist.upserted[i]

\* C5: a row becomes 'complete' only in the finalize_run step of the unit that began
\* it, after save_hotels and save_rates for its run id have both returned; a row whose
\* unit raised or whose process stopped before that step is never 'complete'.
CompleteOnlyAfterBothSaves ==
    /\ [][\A i \in DOMAIN runs' :
            (runs'[i].status = "complete" /\ (i \notin DOMAIN runs \/ runs[i].status # "complete"))
                => /\ pc = "finalize_run" /\ unit.run_id = i
                   /\ i \in hist.hotels_saved /\ i \in hist.rates_saved]_vars
    /\ [](\A i \in DOMAIN runs :
            runs[i].status = "complete" => i \in hist.hotels_saved \cap hist.rates_saved)

\* C5 witness: one row is complete with both saves behind it, and another row, whose
\* save_rates raised after its save_hotels had returned, is failed.
SavedThenCompleteAndRaisedThenFailed ==
    \E i, j \in DOMAIN runs :
        /\ runs[i].status = "complete" /\ i \in hist.hotels_saved \cap hist.rates_saved
        /\ runs[j].status = "failed" /\ runs[j].failure_reason = "OperationalError"
        /\ j \in hist.hotels_saved \ hist.rates_saved

(***************************************************************************)
(* SpecFailure: one execution over two destinations and one sweep, every   *)
(* fetch ending in a payload or in an error of any category, the re-login  *)
(* of a rebuild and the store calls failing or not, the task cancelled or  *)
(* not.                                                                    *)
(***************************************************************************)
RECURSIVE Pad(_, _)
Pad(text, n) == IF n = 0 THEN "" ELSE text \o Pad(text, n - 1)

\* a text longer than the 512 characters a failure reason keeps
LongText == Pad("0123456789", 60)

BackendFailures == {BackendFailure1, [status |-> "500", body |-> LongText]}

UnclassifiedErrors == {"PatchrightError: timeout", "ValueError: " \o LongText}

FailureFetchErrors == TransportLoss \cup {"SessionRefreshError"} \cup UnclassifiedErrors

FailureSettings ==
    {[destinations |-> <<"d1", "d2">>,
      sweeps |-> <<DateSweep(1)>>,
      resume_completed_runs |-> FALSE,
      sweep_priority |-> "sweep-first",
      max_consecutive_backend_failures |-> m,
      destination_pause_s |-> Seconds(0)] : m \in 1..MaxThreshold}

InitSpecFailure == InitStore /\ \E s \in FailureSettings : InitOrchestrator(s)

NextFailure ==
    \/ StartRun(1)
    \/ ScheduleSweepFirst
    \/ \E ok \in BOOLEAN : Login(ok)
    \/ NextUnit
    \/ BeginRun
    \/ FetchReturns(Payload1)
    \/ \E e \in FailureFetchErrors : FetchRaises(e)
    \/ \E f \in BackendFailures : FetchRaisesBackendUnavailable(f)
    \/ \E ok \in BOOLEAN : Rebuild(ok)
    \/ AfterLoop
    \/ StoreRunPayload
    \/ SaveHotels
    \/ SaveRates
    \/ FinalizeRun
    \/ StoreRaises
    \/ Handler
    \/ HandlerRaises
    \/ Interrupt
    \/ Cleanup
    \/ SessionExit

SpecFailure == InitSpecFailure /\ [][NextFailure]_vars

SessionAbort == "RuntimeError: Unable to recover session"

\* the unit last entered has left its rebuild loop
LeftRebuildLoop ==
    pc \in {"after_loop", "store_run_payload", "save_hotels", "save_rates", "finalize_run"}

\* attempt n of the unit last entered ended in e
AttemptEnded(n, e) == n \in DOMAIN hist.attempts /\ hist.attempts[n] = e

\* C11 as stated: a fetch that raised SessionRefreshError is followed, after the
\* rebuild and the re-login, by one more fetch of the unit; the sweep is aborted as an
\* unrecoverable session failure exactly when that retry raised SessionRefreshError
\* again; a retry that returned or ended in another category is not such an abort.
SessionErrorRetriedOnceThenFatal ==
    /\ (pc = "after_loop" /\ AttemptEnded(Len(hist.attempts), "SessionRefreshError"))
          => AttemptEnded(Len(hist.attempts) - 1, "SessionRefreshError")
    /\ exc = SessionAbort
          => \E n \in DOMAIN hist.attempts :
                /\ AttemptEnded(n, "SessionRefreshError")
                /\ AttemptEnded(n + 1, "SessionRefreshError")
    /\ (/\ pc = "handler" /\ exc # "LoginError"
        /\ hist.attempts = <<"SessionRefreshError", "SessionRefreshError">>)
          => exc = SessionAbort

\* C12 as stated: a fetch lost to the transport is, after a rebuild and a re-login
\* that succeeded, followed by another fetch of the unit; a unit whose fetches were
\* all lost to the transport, and in which nothing else failed, has its row still
\* running, the counter as it was when the unit was entered and no exception raised.
TransportLossIsRetriedAndHarmless ==
    /\ pc = "after_loop" => ~(\E t \in TransportLoss : AttemptEnded(Len(hist.attempts), t))
    /\ (/\ pc \in {"begin", "fetch", "rebuild", "after_loop", "handler", "cleanup"}
        /\ hist.attempts # <<>>
        /\ \A n \in DOMAIN hist.attempts : hist.attempts[n] \in TransportLoss
        /\ exc \notin {"LoginError", "CancelledError"})
          => /\ exc = None
             /\ consecutive_backend_failures = hist.counter_at_start
             /\ unit.run_id # NoRun /\ runs[unit.run_id].status = "running"

\* C13 as stated: when the fetch of a unit ended in BackendUnavailableError and fewer
\* back-to-back backend failures than the threshold have happened, the step that
\* follows marks the unit's row failed with the reason built from the status and the
\* body (as far as the 512 characters of a reason hold it), saves no hotel and no rate
\* record, changes no other row, raises nothing and goes on to the next unit.
BackendFailureMarksUnitAndProceeds ==
    [][(/\ pc = "after_loop"
        /\ AttemptEnded(Len(hist.attempts), "BackendUnavailableError")
        /\ hist.streak < settings.max_consecutive_backend_failures)
          => /\ runs'[unit.run_id].status = "failed"
             /\ runs'[unit.run_id].failure_reason
                   = Truncate(BackendReason(unit.backend_failure[1]), ReasonLimit)
             /\ \A i \in DOMAIN runs : i # unit.run_id => runs'[i] = runs[i]
             /\ DOMAIN runs' = DOMAIN runs
             /\ hotels' = hotels /\ rates' = rates
             /\ unit.run_id \notin hist.hotels_saved \cup hist.rates_saved
             /\ exc' = None
             /\ pc' = "loop" /\ qi' = qi + 1]_vars

\* the row of the unit in which the exception of hist.raised was raised
RaisedIn == runs[unit.run_id]

\* once an exception was raised in a unit, no row is begun and no unit is entered
NoUnitBegunAfterRaise ==
    hist.raised # <<>> => (DOMAIN runs' = DOMAIN runs /\ hist'.reached = hist.reached)

RefreshAttempts == 3

\* the frame of the client steps
ClientOnly ==
    UNCHANGED <<runs, destinations, hotels, rates, now, call, settings, pc, existing_runs,
                batch_idx, queue, qi, unit, consecutive_backend_failures, context,
                open_contexts, exc, run_context, hist>>

Exception(type, message) == [type |-> type, message |-> message]

\* lines 116-126: the call and its locals
FetchPropertiesPage(warmup_page) ==
    /\ client.pc = "idle"
    /\ client' = [NoPageFetch EXCEPT !.pc = "attempt", !.use_warmup = warmup_page]
    /\ ClientOnly
    /\ UNCHANGED extVars

\* lines 128-132 and 172: the next attempt, or the raise after the last one
NextAttempt ==
    /\ client.pc = "attempt"
    /\ client' = IF client.refresh_attempt >= RefreshAttempts
                 THEN [client EXCEPT
                         !.pc = "done",
                         !.raised = <<Exception("SessionRefreshError",
                                        "Search request failed after refreshing session")>>]
                 ELSE [client EXCEPT !.pc = IF client.use_warmup THEN "warmup" ELSE "post"]
    /\ ClientOnly
    /\ UNCHANGED extVars

\* what the warm-up navigation and its wait for the properties response end in
WarmupOutcomes == {"captured", "TimeoutError", "PlaywrightTimeoutError", "RuntimeError"}

\* a warm-up whose except clause names RuntimeError only
WarmupCaughtRuntimeErrorOnly(outcome) == outcome = "RuntimeError"

\* line 145: except (asyncio.TimeoutError, PlaywrightTimeoutError, RuntimeError)
WarmupCaught(outcome) ==
    outcome \in {"TimeoutError", "PlaywrightTimeoutError", "RuntimeError"}

\* lines 133-154: the warm-up page's properties response, whatever its status, is
\* captured and its JSON returned, or the capture times out and the direct POST is made
Warmup(outcome, status) ==
    /\ client.pc = "warmup"
    /\ client' = IF outcome = "captured"
                 THEN [client EXCEPT !.pc = "done", !.returned = <<"warmup">>,
                                     !.response_status = status,
                                     !.events = Append(@, "captured")]
                 ELSE IF WarmupCaught(outcome)
                 THEN [client EXCEPT !.pc = "post", !.events = Append(@, outcome)]
                 ELSE [client EXCEPT !.pc = "done", !.events = Append(@, outcome),
                                     !.raised = <<Exception(outcome, "warm-up")>>]
    /\ ClientOnly
    /\ UNCHANGED extVars

\* _post_properties, lines 174-195, and its caller's lines 156-164
PostProperties(status, body) ==
    /\ client.pc = "post"
    /\ client' =
         CASE status = "200" ->
                [client EXCEPT !.posts = Append(@, status), !.body = body,
                               !.events = Append(@, "post"),
                               !.response_status = status,
                               !.pc = "done", !.returned = <<"post">>]
           [] status \in {"401", "403"} ->
                [client EXCEPT !.posts = Append(@, status), !.body = body,
                               !.events = Append(@, "post"),
                               !.pc = "refresh_token"]
           [] OTHER ->
                [client EXCEPT
                   !.posts = Append(@, status), !.body = body, !.pc = "done",
                   !.events = Append(@, "post"),
                   !.raised = <<Exception("RuntimeError",
                                  "Search request failed (" \o status \o "): "
                                     \o Truncate(body, 512))>>]
    /\ ClientOnly
    /\ UNCHANGED extVars

\* lines 165-168: the token is fetched again, or its RuntimeError becomes a
\* SessionRefreshError
RefreshToken(ok) ==
    /\ client.pc = "refresh_token"
    /\ client' =
         IF ok
         THEN [client EXCEPT !.token_refreshes = @ + 1, !.pc = "refresh_session"]
         ELSE [client EXCEPT
                 !.token_refreshes = @ + 1, !.pc = "done",
                 !.raised = <<Exception("SessionRefreshError",
                     "Unable to retrieve account token from auth session endpoint")>>]
    /\ ClientOnly
    /\ UNCHANGED extVars

\* a page fetch that goes on with the same attempt number after a denial
RefreshSessionSameAttempt ==
    /\ client.pc = "refresh_session"
    /\ client' = [client EXCEPT !.session_refreshes = @ + 1, !.use_warmup = TRUE,
                                !.pc = "attempt"]
    /\ ClientOnly
    /\ UNCHANGED extVars

\* lines 169-170 and the loop increment
RefreshSession ==
    /\ client.pc = "refresh_session"
    /\ client' = [client EXCEPT !.session_refreshes = @ + 1, !.use_warmup = TRUE,
                                !.refresh_attempt = @ + 1, !.pc = "attempt"]
    /\ ClientOnly
    /\ UNCHANGED extVars

\* a page or request operation fails at the transport (browser closed, navigation
\* timeout outside the warm-up's except clause): the error leaves the client as it is
ClientTransportError ==
    /\ client.pc \in {"warmup", "post", "refresh_token", "refresh_session"}
    /\ client' = [client EXCEPT !.pc = "done",
                                !.raised = <<Exception("TargetClosedError", "closed")>>]
    /\ ClientOnly
    /\ UNCHANGED extVars

\* the caller takes the result; the client is ready for the next page
PageFetchOver ==
    /\ client.pc = "done"
    /\ client' = NoPageFetch
    /\ ClientOnly
    /\ UNCHANGED extVars

PostStatuses == {"200", "401", "403", "500", "429"}

NextClient ==
    \/ \E w \in BOOLEAN : FetchPropertiesPage(w)
    \/ NextAttempt
    \/ \E outcome \in WarmupOutcomes, status \in PostStatuses :
          (outcome # "captured" => status = "200") /\ Warmup(outcome, status)
    \/ \E status \in PostStatuses, body \in {"busy", LongText} : PostProperties(status, body)
    \/ \E ok \in BOOLEAN : RefreshToken(ok)
    \/ RefreshSession
    \/ ClientTransportError
    \/ PageFetchOver

SpecClient == InitSpecStore /\ [][NextClient]_vars

Denied(status) == status \in {"401", "403"}

LastPost == client.posts[Len(client.posts)]

RaisedType == IF client.raised = <<>> THEN None ELSE client.raised[1].type

\* C15 as stated: a direct request answered with a non-OK status other than 401/403
\* ends the page fetch with a BackendUnavailableError that carries the status and the
\* response body, with no further request and no token refresh after it.
NonAuthStatusRaisesBackendUnavailable ==
    (/\ client.pc = "done" /\ client.posts # <<>>
     /\ LastPost # "200" /\ ~Denied(LastPost))
       => /\ client.raised # <<>>
          /\ client.raised[1].type = "BackendUnavailableError"
          /\ "status" \in DOMAIN client.raised[1] /\ client.raised[1].status = LastPost
          /\ "body" \in DOMAIN client.raised[1] /\ client.raised[1].body = client.body
          /\ client.token_refreshes = Len(client.posts) - 1

\* C16: a page fetch issues at most 3 direct requests; every request but the last was
\* denied (401/403) and was followed by one token refresh and one session refresh
\* before the page fetch was tried again; the fetch raises SessionRefreshError exactly
\* when the 3rd request was denied too or the token refresh after a denial failed
\* (no warm-up response captured since, nothing failing at the transport); a 200
\* answer or a captured warm-up response ends the fetch with the page result and no
\* error.
PageFetchRetriesDenialsThenGivesUp ==
    /\ Len(client.posts) <= RefreshAttempts
    /\ \A n \in 1..(Len(client.posts) - 1) : Denied(client.posts[n])
    /\ client.pc \in {"attempt", "warmup", "post"}
          => /\ client.token_refreshes = Len(client.posts)
             /\ client.session_refreshes = Len(client.posts)
             /\ client.refresh_attempt = Len(client.posts)
    /\ client.pc = "done"
          => /\ (client.returned = <<>>) # (client.raised = <<>>)
             /\ (client.posts # <<>> /\ LastPost = "200") => client.returned = <<"post">>
             /\ RaisedType = "SessionRefreshError"
                   <=> /\ client.posts # <<>> /\ Denied(LastPost)
                       /\ client.returned = <<>>
                       /\ RaisedType # "TargetClosedError"
             /\ RaisedType = "SessionRefreshError"
                   => \/ Len(client.posts) = RefreshAttempts
                      \/ client.session_refreshes < client.token_refreshes

\* C16 witness: three direct requests were denied, the token was refreshed after each,
\* and the page fetch ended in SessionRefreshError.
ThreeDenialsThenSessionRefreshError ==
    /\ client.pc = "done"
    /\ client.posts = <<"401", "403", "401">>
    /\ client.token_refreshes = 3 /\ client.session_refreshes = 3
    /\ RaisedType = "SessionRefreshError"


(***************************************************************************)
(* SpecOrder: executions over a 2 x 2 matrix follow one another on the     *)
(* same store, under both scheduling orders, with resume on or off; a      *)
(* fetch returns, fails for the backend, or raises an unclassified error.  *)
(***************************************************************************)
OrderSettings ==
    {[destinations |-> <<"d1", "d2">>,
      sweeps |-> <<DateSweep(1), DateSweep(2)>>,
      resume_completed_runs |-> r,
      sweep_priority |-> p,
      max_consecutive_backend_failures |-> MaxThreshold,
      destination_pause_s |-> Seconds(0)] :
        r \in BOOLEAN, p \in {"sweep-first", "destination-first"}}

InitSpecOrder == InitStore /\ \E s \in OrderSettings : InitOrchestrator(s)

NextOrder ==
    \/ StartRun(MaxExecutions)
    \/ ScheduleDestinationFirst
    \/ ScheduleSweepFirst
    \/ \E ok \in BOOLEAN : Login(ok)
    \/ NextUnit
    \/ BeginRun
    \/ FetchReturns(Payload1)
    \/ FetchRaises("PatchrightError")
    \/ FetchRaisesBackendUnavailable(BackendFailure1)
    \/ AfterLoop
    \/ StoreRunPayload
    \/ SaveHotels
    \/ SaveRates
    \/ FinalizeRun
    \/ Handler
    \/ Cleanup
    \/ SessionExit

SpecOrder == InitSpecOrder /\ [][NextOrder]_vars

\* the unit of destination d and sweep w
UnitAt(d, w) == DestinationRun(settings.destinations[d], settings.sweeps[w])

\* the order the spec schedules the matrix in: sweep-first takes every destination for
\* sweep 1, then sweep 2, ...; destination-first every sweep for destination 1, ...
ScheduledOrder ==
    LET nd == Len(settings.destinations)
        nw == Len(settings.sweeps)
    IN  [n \in 1..(nd * nw) |->
            IF settings.sweep_priority = "destination-first"
            THEN UnitAt(((n - 1) \div nw) + 1, ((n - 1) % nw) + 1)
            ELSE UnitAt(((n - 1) % nd) + 1, ((n - 1) \div nd) + 1)]

\* a unit resume removes: its latest run was complete when the execution started
RemovedByResume(u) == settings.resume_completed_runs /\ StatusAtStart(u) = "complete"

RECURSIVE PendingOf(_)
PendingOf(units) ==
    IF units = <<>> THEN <<>>
    ELSE IF RemovedByResume(Head(units)) THEN PendingOf(Tail(units))
    ELSE <<UnitSignature(Head(units))>> \o PendingOf(Tail(units))

IsPrefix(a, b) == Len(a) <= Len(b) /\ a = SubSeq(b, 1, Len(a))

\* C17: the units an execution begins are, in order, the units of the scheduled order
\* with only the units already complete at its start removed: what it has begun so far
\* is always a beginning of that sequence (none reordered, repeated or left out), and
\* all of it when the execution ends without raising.
UnitsBegunInScheduledOrder ==
    hist.execution >= 1 =>
        /\ IsPrefix(hist.order, PendingOf(ScheduledOrder))
        /\ EndedNormally => hist.order = PendingOf(ScheduledOrder)

\* C17 witness: a resumed execution ended without raising after beginning three of the
\* four units, the one that was complete at its start being the one removed.
ResumedOrderWithOneUnitRemoved ==
    /\ settings.resume_completed_runs /\ EndedNormally
    /\ Len(hist.order) = 3
    /\ Len(PendingOf(ScheduledOrder)) = 3


\* every unit of the matrix had a complete latest run when the execution started
AllCompleteAtStart == \A u \in ScheduledUnits : StatusAtStart(u) = "complete"

\* the units of sweep w
UnitsOfSweep(w) == {UnitAt(d, w) : d \in DOMAIN settings.destinations}

\* C18: with resume enabled, an execution that finds every unit of the queue complete
\* opens no browser context, performs no login and issues no fetch; and in sweep-first
\* order no unit of a batch found complete is entered or fetched.
CompleteBatchIsSkippedEntirely ==
    (settings.resume_completed_runs /\ hist.execution >= 1 /\ pc # "stopped") =>
        /\ AllCompleteAtStart =>
              /\ open_contexts = {} /\ context = NoContext
              /\ pc # "login"
              /\ hist.fetched = {}
        /\ settings.sweep_priority # "destination-first" =>
              \A w \in DOMAIN settings.sweeps :
                  (\A u \in UnitsOfSweep(w) : StatusAtStart(u) = "complete") =>
                      \A u \in UnitsOfSweep(w) :
                          UnitSignature(u) \notin (hist.reached \cup hist.fetched)


\* C19 as stated: however the sweep ends, the finally block of run() closes the context
\* that is active then, the one created last: the step leaves it closed, also when an
\* error was raised after a context was rebuilt inside the sweep.
CleanupClosesActiveContext ==
    [][pc = "cleanup" => (hist'.cleanup_closed = context /\ context \notin open_contexts')]_vars


\* C20 as stated: when an execution of run() ends, by returning or by an exception, no
\* row it began is still 'running': every such row is complete, or failed with a reason.
NoRowLeftRunningAtRunEnd ==
    pc = "session_exit" =>
        \A i \in hist.begun :
            \/ runs[i].status = "complete"
            \/ runs[i].status = "failed" /\ runs[i].failure_reason # None

\* C37: at every moment at most one context created by the run is open, and a rebuild
\* leaves the context it replaces closed and the replacement open.
AtMostOneContextOpen ==
    /\ [](Cardinality(open_contexts) <= 1)
    /\ [][(pc = "rebuild" /\ context' # context) =>
            (context \notin open_contexts' /\ context' \in open_contexts')]_vars

\* C37 witness: after a rebuild the unit goes on with the replacement, the only
\* context open
ReplacementIsOnlyContextOpen ==
    /\ pc = "begin" /\ unit.rebuild_attempt > 0
    /\ context # run_context /\ open_contexts = {context}


(***************************************************************************)
(* SqliteStore under concurrent callers: every public method builds a      *)
(* closure _op, then runs `async with self._lock: await to_thread(_op)`.   *)
(* The statements of _op run in a worker thread on the one connection of   *)
(* the store; begin_run's _op is modelled statement by statement.          *)
(*                                                                         *)
(* tasks[t].pc: "idle"      no call issued                                 *)
(*              "waiting"   at `async with self._lock`                     *)
(*              "update"    in begin_run's _op, before the UPDATE          *)
(*              "insert"    in begin_run's _op, before the INSERT          *)
(*              "statement" in the _op of another method                   *)
(*              "release"   _op returned, before the lock is released      *)
(*              "returned"  the call returned                              *)
(***************************************************************************)
MaxTasks == 3   \* coroutines calling the store concurrently

Tasks == 1..MaxTasks

\* started, acquired: the state of the connection when the call was issued and when
\* it got the lock; error: the exception the call ended in
NoCall ==
    [op |-> "none", key |-> "", run_id |-> NoRun, pc |-> "idle", result |-> NoRun,
     started |-> "", acquired |-> "", error |-> None]

\* the calls a task may issue
StoreCalls ==
    {[NoCall EXCEPT !.op = "begin_run", !.key = k, !.pc = "waiting"] : k \in {"d1"}}
    \cup {[NoCall EXCEPT !.op = o, !.run_id = id, !.pc = "waiting"] :
            o \in {"finalize_run", "mark_run_failed", "save_hotels"}, id \in 1..2}
    \cup {[NoCall EXCEPT !.op = "fetch_latest_run", !.key = "d1", !.pc = "waiting"]}

InThread == {"update", "insert", "statement", "release"}

LockFrame ==
    UNCHANGED <<call, orchVars, hist, db, login, account, resolution, ctor,
                fetch, otp>>

\* a coroutine calls a store method and reaches `async with self._lock`
TaskCalls(t, c) ==
    /\ tasks[t].pc = "idle"
    /\ tasks' = [tasks EXCEPT ![t] = [c EXCEPT !.started = db.state]]
    /\ UNCHANGED <<storeVars, lock>>
    /\ LockFrame

\* a lock that lets every caller in
AcquireAnyway(t) ==
    /\ tasks[t].pc = "waiting"
    /\ lock' = t
    /\ tasks' = [tasks EXCEPT ![t].pc = IF tasks[t].op = "begin_run" THEN "update"
                                        ELSE "statement",
                               ![t].acquired = db.state]
    /\ UNCHANGED storeVars
    /\ LockFrame

\* asyncio.Lock.acquire: the caller goes on only when no task holds the lock
Acquire(t) ==
    /\ tasks[t].pc = "waiting"
    /\ lock = NoTask
    /\ lock' = t
    /\ tasks' = [tasks EXCEPT ![t].pc = IF tasks[t].op = "begin_run" THEN "update"
                                        ELSE "statement",
                               ![t].acquired = db.state]
    /\ UNCHANGED storeVars
    /\ LockFrame

\* begin_run._op: the destination upsert and the UPDATE that demotes running rows
BeginRunUpdate(t) ==
    /\ tasks[t].pc = "update"
    /\ destinations' = destinations \cup {tasks[t].key}
    /\ runs' = DemoteRunning(runs, Signature(tasks[t].key, None, Params1))
    /\ tasks' = [tasks EXCEPT ![t].pc = "insert"]
    /\ UNCHANGED <<hotels, rates, now, lock>>
    /\ LockFrame

\* begin_run._op: the INSERT, cursor.lastrowid, and the commit of `with conn`
BeginRunInsert(t) ==
    /\ tasks[t].pc = "insert"
    /\ runs' = Append(runs, NewRunRow(runs, tasks[t].key, None, Params1, now))
    /\ tasks' = [tasks EXCEPT ![t].pc = "release", ![t].result = Len(runs) + 1]
    /\ UNCHANGED <<destinations, hotels, rates, now, lock>>
    /\ LockFrame

\* the _op of finalize_run, mark_run_failed, save_hotels, fetch_latest_run: one
\* transaction of one statement (save_hotels: one upsert per record)
Statement(t) ==
    /\ tasks[t].pc = "statement"
    /\ runs' = CASE tasks[t].op = "finalize_run" -> FinalizeRunRows(runs, tasks[t].run_id, 1, 1)
                 [] tasks[t].op = "mark_run_failed" ->
                        MarkRunFailedRows(runs, tasks[t].run_id, "boom")
                 [] OTHER -> runs
    /\ hotels' = IF tasks[t].op = "save_hotels" THEN SaveHotelsRows(hotels, <<Hotel1>>)
                 ELSE hotels
    /\ tasks' = [tasks EXCEPT ![t].pc = "release"]
    /\ UNCHANGED <<destinations, rates, now, lock>>
    /\ LockFrame

\* leaving `async with self._lock`
Release(t) ==
    /\ tasks[t].pc = "release"
    /\ lock' = NoTask
    /\ tasks' = [tasks EXCEPT ![t].pc = "returned"]
    /\ UNCHANGED storeVars
    /\ LockFrame

InitSpecLock ==
    /\ InitOrchestrator(DefaultSettings)
    /\ runs = <<>> /\ destinations = {} /\ hotels = {} /\ rates = {} /\ now = 1
    /\ call = [op |-> "none"]
    /\ lock = NoTask
    /\ tasks = [t \in Tasks |-> NoCall]
    /\ db = NoDatabase /\ login = NoLogin /\ account = NoAccount
    /\ resolution = NoResolution /\ ctor = NoConstruction
    /\ fetch = NoFetch /\ otp = NoOtp

NextLock ==
    \/ \E t \in Tasks : \E c \in StoreCalls : TaskCalls(t, c)
    \/ \E t \in Tasks : Acquire(t)
    \/ \E t \in Tasks : BeginRunUpdate(t)
    \/ \E t \in Tasks : BeginRunInsert(t)
    \/ \E t \in Tasks : Statement(t)
    \/ \E t \in Tasks : Release(t)

SpecLock == InitSpecLock /\ [][NextLock]_vars

\* the begin_run calls whose INSERT has run
Inserted == {t \in Tasks : tasks[t].op = "begin_run" /\ tasks[t].pc \in {"release", "returned"}}

\* one step loses no update: no row goes away, and a row that finalize_run,
\* mark_run_failed or a demotion has written is not running afterwards
NoUpdateLostStep ==
    /\ Len(runs') >= Len(runs)
    /\ \A i \in DOMAIN runs : runs[i].status # "running" => runs'[i].status # "running"
    /\ \A t \in Tasks :
          (tasks[t].pc = "statement" /\ tasks'[t].pc = "release"
           /\ tasks[t].op \in {"finalize_run", "mark_run_failed"}
           /\ tasks[t].run_id \in DOMAIN runs)
             => runs'[tasks[t].run_id].status =
                   (IF tasks[t].op = "finalize_run" THEN "complete" ELSE "failed")

\* C21: of the calls issued concurrently on one store, at most one is inside its
\* database work at a time, and it is the holder of the lock; so no two rows of a
\* signature are running, and no update is lost: every begin_run whose INSERT ran has
\* a row of its own, the table holds exactly one row per such call, and every write of
\* a status is in the table after its step and is not undone.
StoreWorkIsSerialized ==
    /\ [](/\ \A t, u \in Tasks :
                (tasks[t].pc \in InThread /\ tasks[u].pc \in InThread) => t = u
          /\ \A t \in Tasks : tasks[t].pc \in InThread => lock = t
          /\ \A i, j \in DOMAIN runs :
                (/\ runs[i].status = "running" /\ runs[j].status = "running"
                 /\ runs[i].search_signature = runs[j].search_signature) => i = j
          /\ Len(runs) = Cardinality(Inserted)
          /\ \A t, u \in Inserted :
                /\ tasks[t].result \in DOMAIN runs
                /\ tasks[t].result = tasks[u].result => t = u)
    /\ [][NoUpdateLostStep]_vars

\* C21 witness: a begin_run call holds the lock and has demoted the running row of
\* its signature, its INSERT still to come, while another begin_run call of the same
\* signature waits for the lock.
BeginRunWaitsForBeginRun ==
    \E t, u \in Tasks :
        /\ t # u /\ lock = t
        /\ tasks[t].op = "begin_run" /\ tasks[t].pc = "insert"
        /\ tasks[u].op = "begin_run" /\ tasks[u].pc = "waiting"
        /\ tasks[u].key = tasks[t].key
        /\ Len(runs) = 1 /\ runs[1].status = "failed" /\ runs[1].failure_reason = Superseded


\* one begin_run step of SpecStore, seen from the table: one row more, the new row
\* running under the next id; every older row is as it was, except the running rows of
\* the new row's signature, which are failed with the supersession reason
BeginRunFrameStep ==
    call'.op = "begin_run" =>
        /\ Len(runs') = Len(runs) + 1
        /\ runs'[Len(runs')].status = "running"
        /\ runs'[Len(runs')].id = Len(runs) + 1
        /\ \A i \in DOMAIN runs : runs[i].id # runs'[Len(runs')].id
        /\ call'.run_id = runs'[Len(runs')].id
        /\ \A i \in DOMAIN runs :
              IF /\ runs[i].search_signature = runs'[Len(runs')].search_signature
                 /\ runs[i].status = "running"
              THEN runs'[i] = [runs[i] EXCEPT !.status = "failed",
                                              !.failure_reason = Superseded]
              ELSE runs'[i] = runs[i]

\* C22: begin_run for signature s inserts exactly one new row, running and with a
\* fresh id, changes only the rows of signature s that are running (to failed with
\* reason 'Superseded by new run'), and leaves every row of another signature and
\* every complete or failed row as it was.
BeginRunChangesOnlyRunningRowsOfSignature == [][BeginRunFrameStep]_vars

\* C22 witness: begin_run returned on a table that held a complete row of the same
\* signature: the complete row is as finalize_run left it, next to the new running row.
BeginRunLeftCompleteRowAlone ==
    /\ call.op = "begin_run" /\ Len(runs) = 2
    /\ runs[1].status = "complete" /\ runs[1].total_hotels = 1
    /\ runs[2].status = "running"
    /\ runs[2].search_signature = runs[1].search_signature


(***************************************************************************)
(* SpecMigrate: a database file at any recorded schema version is opened,  *)
(* used, closed and opened again.                                          *)
(*                                                                         *)
(* db.state: "closed"    no connection                                     *)
(*           "migrating" in the loop of _apply_migrations                  *)
(*           "open"      initialize returned, self._connection is set      *)
(*           "failed"    initialize raised; the connection was closed      *)
(***************************************************************************)
\* the database files a store may be opened on: a new file (version 0), a file this code
\* has migrated to version v, and a file of version 1..4 written by a release whose
\* rate_snapshots table still had the raw_json column that migration 5 drops
DatabaseFiles ==
    {[state |-> "closed", version |-> v, columns |-> ColumnsAt(v), from |-> v,
      applied |-> <<>>] : v \in 0..SCHEMA_VERSION}
    \cup {[state |-> "closed", version |-> v, columns |-> ColumnsAt(v) \cup {RawJson},
           from |-> v, applied |-> <<>>] : v \in 1..(SCHEMA_VERSION - 1)}

MigrateFrame ==
    UNCHANGED <<call, orchVars, hist, lock, tasks, login, account, resolution, ctor,
                fetch, otp>>

\* initialize, lines 121-127 and 136-140, _apply_migrations 184-195: a second call on an
\* open store returns at once; otherwise the file is opened and the recorded version
\* read; at SCHEMA_VERSION or above nothing is applied
Initialize ==
    /\ db.state \in {"closed", "open", "failed"}
    /\ db' = IF db.state = "open" THEN db
             ELSE [db EXCEPT !.state = IF db.version >= SCHEMA_VERSION THEN "open"
                                       ELSE "migrating",
                             !.from = db.version,
                             !.applied = <<>>]
    /\ UNCHANGED storeVars
    /\ MigrateFrame

\* _apply_migrations, lines 196-206, and _open_connection 147-156: one iteration of
\* `for version in range(current + 1, SCHEMA_VERSION + 1)`: the script runs and the
\* version is recorded, or the script raises OperationalError, the connection is closed
\* and initialize raises; the versions recorded before stay recorded
ApplyMigration ==
    /\ db.state = "migrating"
    /\ LET version == db.version + 1
       IN  IF ScriptRuns(version, db.columns)
           THEN db' = [db EXCEPT !.columns = ScriptEffect(version, db.columns),
                                 !.version = version,
                                 !.applied = Append(@, version),
                                 !.state = IF version = SCHEMA_VERSION THEN "open"
                                           ELSE "migrating"]
           ELSE db' = [db EXCEPT !.state = "failed"]
    /\ UNCHANGED storeVars
    /\ MigrateFrame

\* close, lines 129-134
Close ==
    /\ db.state = "open"
    /\ db' = [db EXCEPT !.state = "closed"]
    /\ UNCHANGED storeVars
    /\ MigrateFrame

\* _require_connection: the calls of an initialised store
Connected == db.state = "open"

InitSpecMigrate ==
    /\ InitOrchestrator(DefaultSettings)
    /\ runs = <<>> /\ destinations = {} /\ hotels = {} /\ rates = {} /\ now = 1
    /\ call = [op |-> "none"]
    /\ lock = NoTask /\ tasks = <<>> /\ login = NoLogin /\ account = NoAccount
    /\ resolution = NoResolution /\ ctor = NoConstruction
    /\ fetch = NoFetch /\ otp = NoOtp
    /\ db \in DatabaseFiles

NextMigrate ==
    \/ Initialize
    \/ ApplyMigration
    \/ Close
    \/ \E d \in DestKeys : Connected /\ ApiBeginRun(d, None, Params1)
    \/ \E id \in RunIds : Connected /\ ApiFinalizeRun(id, 1, 1)
    \/ \E id \in RunIds : Connected /\ ApiMarkRunFailed(id, "boom")

SpecMigrate == InitSpecMigrate /\ [][NextMigrate]_vars

\* the versions a..b in ascending order
Ascending(a, b) == [i \in 1..(b - a) |-> a + i]

\* C23 as stated: opening the store on a database of recorded version v, 0 <= v <= 5,
\* never raises; when initialize has returned, exactly the migrations v+1..5 were
\* applied, in ascending order and each once, and version 5 is recorded; a database at
\* version 5, and an open store, are left as they are.
MigrationsUpgradeToSchemaVersion ==
    /\ db.state # "failed"
    /\ db.state = "open" =>
          /\ db.version = SCHEMA_VERSION
          /\ db.applied = Ascending(db.from, SCHEMA_VERSION)
          /\ db.from = SCHEMA_VERSION => db.applied = <<>>


(***************************************************************************)
(* SpecMark: mark_run_failed with short and long reasons, for ids of       *)
(* running, complete and failed rows and for an id no row has.             *)
(***************************************************************************)
Reasons == {"boom", "", LongText}

NextMark ==
    \/ \E d \in DestKeys : ApiBeginRun(d, None, Params1)
    \/ \E id \in RunIds : ApiFinalizeRun(id, 1, 1)
    \/ \E id \in RunIds : \E reason \in Reasons : ApiMarkRunFailed(id, reason)

SpecMark == InitSpecStore /\ [][NextMark]_vars

\* text is the first characters of reason, at most n of them, and all of reason when
\* reason has at most n characters
CutTo(text, reason, n) ==
    /\ Len(text) = (IF Len(reason) <= n THEN Len(reason) ELSE n)
    /\ text = SubSeq(reason, 1, Len(text))

\* one mark_run_failed step: it returns; the row of the id, whatever its status was, is
\* failed with the reason cut to 512 characters; every other row is as it was, and
\* so is the whole table when no row has the id
MarkRunFailedStep ==
    call'.op = "mark_run_failed" =>
        /\ ~call'.raised
        /\ Len(runs') = Len(runs)
        /\ \A i \in DOMAIN runs :
              IF runs[i].id = call'.run_id
              THEN /\ runs'[i].status = "failed"
                   /\ CutTo(runs'[i].failure_reason, call'.reason, ReasonLimit)
                   /\ [runs'[i] EXCEPT !.status = runs[i].status,
                                       !.failure_reason = runs[i].failure_reason] = runs[i]
              ELSE runs'[i] = runs[i]

\* C24: mark_run_failed(run_id, reason) sets the row's status to failed with the
\* reason cut to at most 512 characters, and does not raise when no row has the id or
\* when the row is already complete or failed.
MarkRunFailedTruncatesAndNeverRaises == [][MarkRunFailedStep]_vars

\* C24 witness: mark_run_failed returned for an id no row has, after an earlier call
\* had failed a complete row with a reason cut to 512 characters.
MarkedUnknownIdAfterLongReason ==
    /\ call.op = "mark_run_failed" /\ call.run_id \notin DOMAIN runs /\ ~call.raised
    /\ \E i \in DOMAIN runs :
          /\ runs[i].status = "failed" /\ runs[i].total_hotels = 1
          /\ Len(runs[i].failure_reason) = ReasonLimit


(***************************************************************************)
(* auth/login_flow.py: LoginFlow.run, and auth/two_step.py:                *)
(* TwoStepVerifier.maybe_solve.                                            *)
(*                                                                         *)
(* login.pc: "idle"       not called                                       *)
(*           "reuse"      awaiting _try_reuse_existing_session             *)
(*           "goto_base"  page.goto(base_url), then _is_authenticated      *)
(*           "submit"     _navigate_to_login and _submit_credentials       *)
(*           "challenge"  maybe_solve: the first _challenge_present        *)
(*           "loop_head"  maybe_solve: `while await _challenge_present`    *)
(*           "obtain"     maybe_solve: input found, before obtain_code     *)
(*           "resolution" maybe_solve: the code was submitted              *)
(*           "book"       awaiting _ensure_book_session                    *)
(*           "await"      in the loop of _await_authenticated              *)
(*           "capture"    in _capture_debug_artifacts                      *)
(*           "returned", "raised"                                          *)
(***************************************************************************)
MaxPolls == 2   \* iterations of _await_authenticated before its deadline

\* _MAX_ATTEMPTS = 3
MaxAttempts == 3

LegacyRequiredCookies == {"amexsessioncookie", "aat"}

CookieStates ==
    [session : {"absent", "unset", "soon", "late"}, legacy : SUBSET LegacyRequiredCookies]

Pages == [markers : BOOLEAN, locked : BOOLEAN, error : BOOLEAN, add_device : BOOLEAN]

AccountLocked == "Two-step verification blocked: account temporarily locked by Amex"
HandshakeIncomplete == "Login handshake incomplete; captured debug artefacts for inspection"

\* LoginFlow._is_authenticated
IsAuthenticated(cookies) ==
    \/ cookies.session \in {"unset", "late"}
    \/ LegacyRequiredCookies \subseteq cookies.legacy

\* TwoStepVerifier._challenge_markers_present: the add-device heading counts as resolved
ChallengeMarkersPresent(page) == ~page.add_device /\ page.markers

\* TwoStepVerifier._await_challenge_resolution on a page that has settled
AwaitChallengeResolution(page) ==
    IF page.add_device THEN TRUE
    ELSE IF ~ChallengeMarkersPresent(page) THEN TRUE
    ELSE FALSE

LoginFrame ==
    UNCHANGED <<storeVars, call, orchVars, hist, lock, tasks, db, account, resolution, ctor,
                fetch, otp>>

LoginRaises(error) == login' = [login EXCEPT !.pc = "raised", !.error = error]

\* run, lines 45-48: a new page; is a storage state file present
LoginFlowRun(storage_state_present) ==
    /\ pc \in {"login", "rebuild"}
    /\ login.serial = hist.logins
    /\ login' = [NoLogin EXCEPT !.serial = login.serial + 1,
                                !.pc = IF storage_state_present THEN "reuse" ELSE "goto_base"]
    /\ LoginFrame

\* run, lines 49-58, _try_reuse_existing_session
ReuseSession(ok) ==
    /\ login.pc = "reuse"
    /\ login' = IF ok THEN [login EXCEPT !.pc = "returned", !.kind = "reused"]
                ELSE [login EXCEPT !.pc = "goto_base"]
    /\ LoginFrame

\* run, lines 60-66: after the base page has loaded the cookies may already hold a marker
GotoBase(cookies) ==
    /\ login.pc = "goto_base"
    /\ login' = IF IsAuthenticated(cookies)
                THEN [login EXCEPT !.pc = "returned", !.kind = "validated", !.cookies = cookies]
                ELSE [login EXCEPT !.pc = "submit", !.cookies = cookies]
    /\ LoginFrame

\* run, lines 68-78, _submit_credentials
SubmitCredentials ==
    /\ login.pc = "submit"
    /\ login' = [login EXCEPT !.pc = "challenge", !.submits = @ + 1]
    /\ LoginFrame

\* maybe_solve, lines 64-71: no challenge, or the challenge page
ChallengePresent(page) ==
    /\ login.pc = "challenge"
    /\ login' = IF ChallengeMarkersPresent(page)
                THEN [login EXCEPT !.pc = "loop_head", !.page = page, !.attempt = 0]
                ELSE [login EXCEPT !.pc = "book", !.page = page]
    /\ LoginFrame

\* maybe_solve, lines 73-76 and 92-94: the loop condition, the attempt counter, the
\* method selection and the wait for the input
LoopHead(input_found) ==
    /\ login.pc = "loop_head"
    /\ IF ~ChallengeMarkersPresent(login.page)
       THEN login' = [login EXCEPT !.pc = "book"]
       ELSE IF login.attempt + 1 > MaxAttempts
       THEN login' = [login EXCEPT !.pc = "raised", !.attempt = @ + 1,
                        !.error = "Exceeded maximum attempts solving two-step verification"]
       ELSE IF ~input_found
       THEN login' = [login EXCEPT !.pc = "raised", !.attempt = @ + 1,
                        !.error = "OTP input not found during challenge handling"]
       ELSE login' = [login EXCEPT !.pc = "obtain", !.attempt = @ + 1]
    /\ LoginFrame

\* maybe_solve, lines 96-106: a code is obtained, filled in and submitted; the page
\* answers
ObtainAndSubmit(page) ==
    /\ login.pc = "obtain"
    /\ login' = [login EXCEPT !.pc = "resolution", !.codes = @ + 1, !.page = page]
    /\ LoginFrame

\* a verifier that takes the locked account for a rejected code and tries again
ResolutionRetriesWhenLocked ==
    /\ login.pc = "resolution"
    /\ login' = IF AwaitChallengeResolution(login.page) THEN [login EXCEPT !.pc = "book"]
                ELSE [login EXCEPT !.pc = "loop_head"]
    /\ LoginFrame

\* maybe_solve, lines 108-114: cleared, or account locked, or still active
Resolution ==
    /\ login.pc = "resolution"
    /\ IF AwaitChallengeResolution(login.page) THEN login' = [login EXCEPT !.pc = "book"]
       ELSE IF login.page.locked THEN LoginRaises(AccountLocked)
       ELSE login' = [login EXCEPT !.pc = "loop_head"]
    /\ LoginFrame

\* run, lines 79-84, _ensure_book_session: the redirect to the travel site is awaited
\* and, seen or not, the flow goes on
EnsureBookSession ==
    /\ login.pc = "book"
    /\ login' = [login EXCEPT !.pc = "await", !.polls = 0]
    /\ LoginFrame

\* _await_authenticated, lines 169-181, and run, lines 86-88: one iteration of the
\* wait; after the deadline run captures the diagnostics
AwaitAuthenticated(cookies, url_travel) ==
    /\ login.pc = "await"
    /\ IF login.polls >= MaxPolls
       THEN login' = [login EXCEPT !.pc = "capture", !.step = 1]
       ELSE IF IsAuthenticated(cookies) \/ url_travel
       THEN login' = [login EXCEPT !.pc = "returned", !.kind = "fresh",
                                   !.cookies = cookies, !.url_travel = url_travel]
       ELSE login' = [login EXCEPT !.polls = @ + 1, !.cookies = cookies,
                                   !.url_travel = url_travel]
    /\ LoginFrame

\* _capture_debug_artifacts and _save_fingerprint_snapshot, in the order of their
\* statements: debug_dir.mkdir (189), page.screenshot (191-196), page.content and
\* write_text (198-204), context.storage_state and write_text (206-218),
\* _collect_fingerprint (229-233), debug_dir.mkdir (240), write_text (242-246)
CaptureSteps ==
    <<"mkdir", "screenshot", "html", "cookies", "fingerprint", "fingerprint_mkdir",
      "fingerprint_write">>

\* the steps that stand inside a try whose handler is `except Exception`
CaptureCaught(step) == step \notin {"mkdir", "fingerprint_mkdir"}

\* one step of the capture, and run, lines 89-91: a failure of a caught step is logged
\* and the capture goes on (after _collect_fingerprint: the snapshot returns); the
\* failure of another step leaves run as it is; after the last step, and when no
\* fingerprint was collected, run raises the handshake error
CaptureDebugArtifacts(outcome) ==
    /\ login.pc = "capture"
    /\ LET step == CaptureSteps[login.step]
           failed == IF login.capture_failed = "none" /\ outcome = "failed" THEN step
                     ELSE login.capture_failed
           last == \/ login.step = Len(CaptureSteps)
                   \/ step = "fingerprint" /\ outcome \in {"failed", "empty"}
       IN  /\ outcome = "empty" => step = "fingerprint"
           /\ IF outcome = "failed" /\ ~CaptureCaught(step)
              THEN login' = [login EXCEPT !.pc = "raised", !.error = "OSError",
                                          !.capture_failed = failed]
              ELSE IF last
              THEN login' = [login EXCEPT !.pc = "raised", !.error = HandshakeIncomplete,
                                          !.capture_failed = failed]
              ELSE login' = [login EXCEPT !.step = @ + 1, !.capture_failed = failed]
    /\ LoginFrame

\* the call of LoginFlow.run by the orchestrator has ended
LoginEnded == login.serial = hist.logins + 1 /\ login.pc \in {"returned", "raised"}

(***************************************************************************)
(* SpecLogin: one execution of the sweep over two destinations, every      *)
(* login of it (the first one and those after a context rebuild) running   *)
(* through LoginFlow.run and the two-step verifier.                        *)
(***************************************************************************)
InitSpecLogin == InitStore /\ \E s \in FailureSettings : InitOrchestrator(s)

NextLogin ==
    \/ StartRun(1)
    \/ ScheduleSweepFirst
    \/ \E b \in BOOLEAN : LoginFlowRun(b)
    \/ \E ok \in BOOLEAN : ReuseSession(ok)
    \/ \E c \in CookieStates : GotoBase(c)
    \/ SubmitCredentials
    \/ \E p \in Pages : ChallengePresent(p)
    \/ \E b \in BOOLEAN : LoopHead(b)
    \/ \E p \in Pages : ObtainAndSubmit(p)
    \/ Resolution
    \/ EnsureBookSession
    \/ \E c \in CookieStates : \E u \in BOOLEAN : AwaitAuthenticated(c, u)
    \/ \E o \in {"ok", "failed", "empty"} : CaptureDebugArtifacts(o)
    \/ LoginEnded /\ Login(login.pc = "returned")
    \/ LoginEnded /\ Rebuild(login.pc = "returned")
    \/ NextUnit
    \/ BeginRun
    \/ FetchReturns(Payload1)
    \/ FetchRaises("TargetClosedError")
    \/ AfterLoop
    \/ StoreRunPayload
    \/ SaveHotels
    \/ SaveRates
    \/ FinalizeRun
    \/ Handler
    \/ Cleanup
    \/ SessionExit

SpecLogin == InitSpecLogin /\ [][NextLogin]_vars

\* a cookie marker as the spec names it: the session-token cookie with an acceptable
\* remaining lifetime, or both legacy cookies
CookieMarker(cookies) ==
    \/ cookies.session \in {"unset", "late"}
    \/ ("amexsessioncookie" \in cookies.legacy /\ "aat" \in cookies.legacy)

\* C25 as stated: a fresh login returns only when a cookie marker was observed within
\* the wait; run raises when none was; and the credentials are submitted at most once
\* per call of run.
FreshLoginNeedsCookieMarker ==
    /\ (login.pc = "returned" /\ login.kind = "fresh") => CookieMarker(login.cookies)
    /\ (login.pc = "raised" /\ login.error = HandshakeIncomplete)
          => ~CookieMarker(login.cookies)
    /\ login.submits <= 1


\* C34 as stated: when a step of the capture of the login-failure diagnostics fails,
\* LoginFlow.run still raises the handshake error, never the error of the capture.
CaptureFailureKeepsHandshakeError ==
    (login.pc = "raised" /\ login.capture_failed # "none")
        => login.error = HandshakeIncomplete

\* the lock message is read after an OTP submission: the challenge is still shown and
\* the page carries one of the account-lock texts
LockDetected ==
    login.pc = "resolution" /\ ChallengeMarkersPresent(login.page) /\ login.page.locked

\* the login has ended with the account-locked error
LockedOut == login.pc = "raised" /\ login.error = AccountLocked

AccountLockStep ==
    /\ LockDetected => (/\ login'.pc = "raised"
                        /\ login'.error = AccountLocked
                        /\ login'.codes = login.codes
                        /\ login'.attempt = login.attempt)
    /\ LockedOut => (/\ login' = login
                     /\ hist'.logins # hist.logins =>
                            (exc' = "LoginError" /\ pc' \in {"handler", "cleanup"}))

\* C26: when the account-locked message is detected after an OTP submission maybe_solve
\* raises at once, without obtaining or submitting another code; the error leaves
\* LoginFlow.run and the orchestrator, and no further login is started in that run.
AccountLockStopsVerification ==
    /\ [][AccountLockStep]_vars
    /\ []((LockedOut /\ login.serial = hist.logins)
             => (exc # None /\ pc \in {"handler", "cleanup", "session_exit", "stopped"}))

\* C26 witness: the lock was met in the login of a context rebuild, after one code,
\* and the execution has ended with the error
LockedOutDuringRebuild ==
    /\ LockedOut
    /\ login.codes = 1
    /\ hist.logins = 2
    /\ pc = "stopped"
    /\ exc = "LoginError"


(***************************************************************************)
(* scripts/run_scraper.py: _resolve_destinations and _build_sweep_batches, *)
(* with destinations/catalog.py.  An optional attribute is <<>> for None   *)
(* and <<v>> for the value v.                                              *)
(***************************************************************************)
MaxEntries == 2   \* entries of the catalog file
MaxKeys == 2      \* requested destination keys

\* str.strip() on the texts that occur in the settings and the arguments
Strip(text) ==
    CASE text = " ROME " -> "ROME"
      [] text = " " -> ""
      [] text = " EU" -> "EU"
      [] text = " WAL " -> "WAL"
      [] text = " FULL" -> "FULL"
      [] text = "wal\n" -> "wal"
      [] OTHER -> text

\* str.lower() on the texts that occur in keys, groups and pragma values
Lower(text) ==
    CASE text = "ROME" -> "rome"
      [] text = "Rome" -> "rome"
      [] text = "ALL" -> "all"
      [] text = "EU" -> "eu"
      [] text = "Group: EU" -> "group: eu"
      [] text = "WAL" -> "wal"
      [] text = "Delete" -> "delete"
      [] text = "FULL" -> "full"
      [] text = "Extra" -> "extra"
      [] text = "OFF" -> "off"
      [] OTHER -> text

\* lowered.startswith("group:")
IsGroupKey(key) == Lower(key) \in {"group: eu", "group:asia"}

\* key.split(":", 1)[1].strip()
GroupOfKey(key) ==
    CASE key = "Group: EU" -> Strip(" EU")
      [] key = "group:asia" -> Strip("asia")
      [] OTHER -> ""

CatalogEntries ==
    [key : {"rome", "Rome", "paris"}, group : {"eu", "Asia"},
     location_id : {<<>>, <<"">>, <<"L1">>}, latitude : {<<>>, <<0>>},
     longitude : {<<>>, <<12>>}]

CatalogFiles == UNION {[1..n -> CatalogEntries] : n \in 0..MaxEntries}

RequestedKeys ==
    UNION {[1..n -> {"rome", " ROME ", "ALL", "Group: EU", "nowhere", " "}]
              : n \in 0..MaxKeys}

\* the manual destination of the settings: search_location_id is a str, the two
\* coordinates are floats
ManualDestinations ==
    [key : {"custom"}, group : {"Manual"}, location_id : {<<"">>, <<"L1">>},
     latitude : {<<41>>}, longitude : {<<12>>}]

\* Destination.missing_fields
MissingFields(destination) ==
    (IF destination.location_id = <<>> \/ destination.location_id = <<"">>
     THEN {"location_id"} ELSE {})
    \cup (IF destination.latitude = <<>> THEN {"latitude"} ELSE {})
    \cup (IF destination.longitude = <<>> THEN {"longitude"} ELSE {})

\* a resolver that does not drop a destination selected twice
KeepAll(selected, seen) == selected

RECURSIVE DedupeByKey(_, _)
\* lines 96-103: the first destination of each key is kept
DedupeByKey(selected, seen) ==
    IF selected = <<>> THEN <<>>
    ELSE IF Head(selected).key \in seen THEN DedupeByKey(Tail(selected), seen)
    ELSE <<Head(selected)>> \o DedupeByKey(Tail(selected), seen \cup {Head(selected).key})

\* DestinationCatalog.load: a dict keyed by destination.key; a key that occurs twice in
\* the file keeps its first position and its last entry
CatalogLoad(file) ==
    LET first == DedupeByKey(file, {})
        last(k) == file[CHOOSE i \in 1..Len(file) :
                          file[i].key = k /\ \A j \in (i + 1)..Len(file) : file[j].key # k]
    IN  [i \in 1..Len(first) |-> last(first[i].key)]

RECURSIVE Concat(_)
Concat(lists) == IF lists = <<>> THEN <<>> ELSE Head(lists) \o Concat(Tail(lists))

\* lines 63-81: one requested key: catalog.get(key), else the first destination whose
\* lowered key equals the lowered request, else a warning
SelectKey(key, all_destinations) ==
    IF Lower(key) \in {"*", "all"} \/ IsGroupKey(key) THEN <<>>
    ELSE IF \E i \in 1..Len(all_destinations) : all_destinations[i].key = key
    THEN <<all_destinations[CHOOSE i \in 1..Len(all_destinations) :
                               all_destinations[i].key = key]>>
    ELSE LET hits == SelectSeq(all_destinations, LAMBDA d : Lower(d.key) = Lower(key))
         IN  IF hits = <<>> THEN <<>> ELSE <<Head(hits)>>

\* lines 83-94: group filters in the order given, then all destinations
SelectGroups(keys, all_destinations) ==
    LET group_filters == SelectSeq(keys, IsGroupKey)
    IN  Concat([i \in 1..Len(group_filters) |->
                  SelectSeq(all_destinations,
                            LAMBDA d : Lower(d.group) = Lower(GroupOfKey(group_filters[i])))])

\* lines 59-94: the destinations selected, before duplicates are dropped
Selected(keys, all_destinations) ==
    Concat([i \in 1..Len(keys) |-> SelectKey(keys[i], all_destinations)])
    \o SelectGroups(keys, all_destinations)
    \o (IF \E i \in 1..Len(keys) : Lower(keys[i]) \in {"*", "all"}
        THEN all_destinations ELSE <<>>)

\* line 41: keys = [key.strip() for key in ... if key.strip()]
StrippedKeys(requested) ==
    LET stripped == [i \in 1..Len(requested) |-> Strip(requested[i])]
    IN  SelectSeq(stripped, LAMBDA k : k # "")

ResolveFrame ==
    UNCHANGED <<storeVars, call, orchVars, hist, lock, tasks, db, login, account, ctor,
                fetch, otp>>

\* _resolve_destinations: the manual destination when no key is requested, else the
\* ready destinations of the catalog, or RuntimeError when none is ready
ResolveDestinations ==
    /\ resolution.pc = "start"
    /\ LET keys == StrippedKeys(resolution.requested)
           all_destinations == CatalogLoad(resolution.file)
           selected == Selected(keys, all_destinations)
           deduped == DedupeByKey(selected, {})
           ready == SelectSeq(deduped, LAMBDA d : MissingFields(d) = {})
       IN  resolution' =
             IF keys = <<>>
             THEN [resolution EXCEPT !.pc = "resolved", !.source = "manual",
                                     !.destinations = <<resolution.manual>>]
             ELSE IF ready = <<>>
             THEN [resolution EXCEPT !.pc = "raised", !.source = "catalog",
                                     !.selected = selected]
             ELSE [resolution EXCEPT !.pc = "resolved", !.source = "catalog",
                                     !.selected = selected, !.destinations = ready]
    /\ ResolveFrame

SweepLabels == <<"2026-01-15", "2026-02-15">>

\* _build_sweep_batches: for every sweep one unit per destination, in order; a
\* destination with an attribute that is None raises
BuildSweepBatchesOfResolved ==
    /\ resolution.pc = "resolved"
    /\ resolution' =
         IF \E i \in 1..Len(resolution.destinations) :
               \/ resolution.destinations[i].location_id = <<>>
               \/ resolution.destinations[i].latitude = <<>>
               \/ resolution.destinations[i].longitude = <<>>
         THEN [resolution EXCEPT !.pc = "raised"]
         ELSE [resolution EXCEPT !.pc = "built",
                 !.batches = [s \in 1..Len(SweepLabels) |->
                                [i \in 1..Len(resolution.destinations) |->
                                   [destination |-> resolution.destinations[i],
                                    label |-> SweepLabels[s]]]]]
    /\ ResolveFrame

InitSpecResolve ==
    /\ InitTables
    /\ InitOrchestrator(DefaultSettings)
    /\ lock = NoTask /\ tasks = <<>> /\ db = NoDatabase /\ login = NoLogin
    /\ account = NoAccount /\ ctor = NoConstruction
    /\ fetch = NoFetch /\ otp = NoOtp
    /\ \E file \in CatalogFiles, requested \in RequestedKeys, manual \in ManualDestinations :
          resolution = [pc |-> "start", file |-> file, requested |-> requested,
                        manual |-> manual, source |-> "none", selected |-> <<>>,
                        destinations |-> <<>>, batches |-> <<>>]

NextResolve ==
    \/ ResolveDestinations
    \/ BuildSweepBatchesOfResolved

SpecResolve == InitSpecResolve /\ [][NextResolve]_vars

\* ready as the spec defines it: a location identifier and both coordinates are present
Ready(destination) ==
    /\ destination.location_id \notin {<<>>, <<"">>}
    /\ destination.latitude # <<>>
    /\ destination.longitude # <<>>

BatchKeys(batch) == {batch[i].destination.key : i \in 1..Len(batch)}

VALID_JOURNAL_MODES == {"delete", "truncate", "persist", "memory", "wal", "off"}
VALID_SYNCHRONOUS_MODES == {"off", "normal", "full", "extra"}

JournalModeArguments ==
    {<<>>, <<"wal">>, <<" WAL ">>, <<"wal\n">>, <<"Delete">>, <<"OFF">>, <<"">>, <<" ">>,
     <<"normal">>, <<"wal2">>}

SynchronousArguments ==
    {<<>>, <<"normal">>, <<" FULL">>, <<"Extra">>, <<"OFF">>, <<"">>, <<" ">>, <<"wal">>,
     <<"fast">>}

\* a normalizer that compares the value as given, lowered but not trimmed
NormalizeUntrimmed(value, valid) ==
    IF value = <<>> THEN [raised |-> FALSE, mode |-> <<>>]
    ELSE IF Lower(value[1]) = "" THEN [raised |-> FALSE, mode |-> <<>>]
    ELSE IF Lower(value[1]) \notin valid THEN [raised |-> TRUE, mode |-> <<>>]
    ELSE [raised |-> FALSE, mode |-> <<Lower(value[1])>>]

\* _normalize_journal_mode and _normalize_synchronous, which differ in the set only
Normalize(value, valid) ==
    IF value = <<>> THEN [raised |-> FALSE, mode |-> <<>>]
    ELSE IF Lower(Strip(value[1])) = "" THEN [raised |-> FALSE, mode |-> <<>>]
    ELSE IF Lower(Strip(value[1])) \notin valid THEN [raised |-> TRUE, mode |-> <<>>]
    ELSE [raised |-> FALSE, mode |-> <<Lower(Strip(value[1]))>>]

ConstructFrame ==
    UNCHANGED <<storeVars, call, orchVars, hist, lock, tasks, db, login, account,
                resolution, fetch, otp>>

\* __init__, lines 103-116: journal_mode is normalized first, then synchronous; a
\* ValueError leaves no object; nothing is opened
Construct ==
    /\ ctor.pc = "start"
    /\ LET journal == Normalize(ctor.journal_mode, VALID_JOURNAL_MODES)
           synchronous == Normalize(ctor.synchronous, VALID_SYNCHRONOUS_MODES)
       IN  ctor' = IF journal.raised
                   THEN [ctor EXCEPT !.pc = "raised", !.error = "journal_mode"]
                   ELSE IF synchronous.raised
                   THEN [ctor EXCEPT !.pc = "raised", !.error = "synchronous"]
                   ELSE [ctor EXCEPT !.pc = "constructed", !._journal_mode = journal.mode,
                                     !._synchronous = synchronous.mode]
    /\ ConstructFrame

\* initialize, lines 121-127, and _open_connection, lines 136-144: the file is
\* created, the connection opened and a pragma executed for each mode that is set
OpenConnection ==
    /\ ctor.pc = "constructed"
    /\ ctor' = [ctor EXCEPT !.pc = "open", !.file_created = TRUE, !.connection = TRUE,
                  !.pragmas = (IF ctor._journal_mode # <<>> THEN {"journal_mode"} ELSE {})
                              \cup (IF ctor._synchronous # <<>> THEN {"synchronous"}
                                    ELSE {})]
    /\ ConstructFrame

InitSpecConstruct ==
    /\ InitTables
    /\ InitOrchestrator(DefaultSettings)
    /\ lock = NoTask /\ tasks = <<>> /\ db = NoDatabase /\ login = NoLogin
    /\ account = NoAccount /\ resolution = NoResolution
    /\ fetch = NoFetch /\ otp = NoOtp
    /\ \E j \in JournalModeArguments, s \in SynchronousArguments :
          ctor = [pc |-> "start", journal_mode |-> j, synchronous |-> s,
                  _journal_mode |-> <<>>, _synchronous |-> <<>>, error |-> None,
                  file_created |-> FALSE, connection |-> FALSE, pragmas |-> {}]

NextConstruct ==
    \/ Construct
    \/ OpenConnection

SpecConstruct == InitSpecConstruct /\ [][NextConstruct]_vars

\* the value is in the set when compared case-insensitively after trimming
InsideSet(value, valid) == value # <<>> /\ Lower(Strip(value[1])) \in valid

\* a value was given and it is not in the set
OutsideSet(value, valid) == value # <<>> /\ ~InsideSet(value, valid)

\* a value was given, it is not blank, and it is not in the set
UnknownValue(value, valid) ==
    value # <<>> /\ Lower(Strip(value[1])) # "" /\ ~InsideSet(value, valid)

Constructed == ctor.pc \in {"constructed", "raised", "open"}

\* C28 as stated: a journal_mode or synchronous value outside the accepted sets makes
\* the constructor raise with no file or connection opened, and the constructor raises
\* for no other reason.
ConstructorRejectsValuesOutsideSets ==
    Constructed =>
       /\ (\/ OutsideSet(ctor.journal_mode, VALID_JOURNAL_MODES)
           \/ OutsideSet(ctor.synchronous, VALID_SYNCHRONOUS_MODES))
             => (ctor.pc = "raised" /\ ~ctor.file_created /\ ~ctor.connection)
       /\ ctor.pc = "raised"
             => (\/ OutsideSet(ctor.journal_mode, VALID_JOURNAL_MODES)
                 \/ OutsideSet(ctor.synchronous, VALID_SYNCHRONOUS_MODES))

\* C28 amended: the constructor raises, with no file or connection opened, exactly when
\* a value that is not blank is outside its set; None and a blank value are taken as
\* "not set", and a value inside its set never raises.
ConstructorRejectsUnknownValues ==
    Constructed =>
       /\ (\/ UnknownValue(ctor.journal_mode, VALID_JOURNAL_MODES)
           \/ UnknownValue(ctor.synchronous, VALID_SYNCHRONOUS_MODES))
             <=> ctor.pc = "raised"
       /\ ctor.pc = "raised" => (~ctor.file_created /\ ~ctor.connection)
       /\ ctor.pc = "open" =>
             /\ InsideSet(ctor.journal_mode, VALID_JOURNAL_MODES)
                   <=> "journal_mode" \in ctor.pragmas
             /\ InsideSet(ctor.synchronous, VALID_SYNCHRONOUS_MODES)
                   <=> "synchronous" \in ctor.pragmas

\* C28 witness: a padded upper-case journal mode was accepted and the store opened; the
\* same store took a blank synchronous value as not set
OpenedWithPaddedJournalMode ==
    /\ ctor.pc = "open"
    /\ ctor.journal_mode = <<" WAL ">>
    /\ ctor._journal_mode = <<"wal">>
    /\ ctor.synchronous = <<" ">>
    /\ ctor.pragmas = {"journal_mode"}


(***************************************************************************)
(* SpecPause: one execution of the sweep over two destinations under every *)
(* form the pause setting can take.                                        *)
(***************************************************************************)
PauseSettings ==
    {[destinations |-> <<"d1", "d2">>,
      sweeps |-> <<DateSweep(1)>>,
      resume_completed_runs |-> FALSE,
      sweep_priority |-> "sweep-first",
      max_consecutive_backend_failures |-> MaxThreshold,
      destination_pause_s |-> p] :
        p \in {AbsentPause, TextPause, Seconds(-1), Seconds(0), Seconds(2)}}

InitSpecPause == InitStore /\ \E s \in PauseSettings : InitOrchestrator(s)

NextPause ==
    \/ StartRun(1)
    \/ ScheduleSweepFirst
    \/ \E ok \in BOOLEAN : Login(ok)
    \/ NextUnit
    \/ BeginRun
    \/ FetchReturns(Payload1)
    \/ \E f \in BackendFailures : FetchRaisesBackendUnavailable(f)
    \/ AfterLoop
    \/ Pause
    \/ StoreRunPayload
    \/ SaveHotels
    \/ SaveRates
    \/ FinalizeRun
    \/ Handler
    \/ Cleanup
    \/ SessionExit

SpecPause == InitSpecPause /\ [][NextPause]_vars

\* the row begun last in this execution: the row of the unit being executed
LastBegun == CHOOSE i \in hist.begun : \A j \in hist.begun : j <= i

\* C29 as stated: while the orchestrator sleeps in the inter-destination pause of a
\* successful unit, the unit's records are saved and its run row is 'complete', never
\* 'running'.
PauseStartsAfterRunIsComplete ==
    (pc = "pause" /\ hist.begun # {}) =>
        /\ runs[LastBegun].status = "complete"
        /\ LastBegun \in hist.hotels_saved


(***************************************************************************)
(* services/search_client.py: the account token of one SearchClient:       *)
(* fetch_properties, _ensure_account_token and _fetch_account_token, with  *)
(* the denial branch of _fetch_properties_page that forces a new token.    *)
(***************************************************************************)
MaxFetches == 3   \* fetch_properties calls on the instance

\* for attempt in range(5)
TokenAttempts == 5

\* what data.get("clientCustomerId") yields: nothing, an empty text, a token
TokenAnswers == {<<>>, <<"">>, <<"T1">>, <<"T2">>}

TokenUnavailable == "RuntimeError: Unable to retrieve account token from auth session endpoint"

\* `if token:`
Truthy(answer) == answer # <<>> /\ answer[1] # ""

\* a client that asks for a token on every call
NeverCached(a, force_refresh) == FALSE

\* _ensure_account_token, line 110: the cached token is returned
Cached(a, force_refresh) == Truthy(a._account_token) /\ ~force_refresh

TokenFrame ==
    UNCHANGED <<storeVars, call, orchVars, hist, lock, tasks, db, login, resolution, ctor,
                fetch, otp>>

\* fetch_properties, line 67: _ensure_account_token()
FetchProperties ==
    /\ account.pc = "idle"
    /\ account.fetches < MaxFetches
    /\ account' = IF Cached(account, FALSE)
                  THEN [account EXCEPT !.pc = "page", !.account_token = account._account_token,
                                       !.refresh_attempt = 0, !.error = None,
                                       !.exhausted = FALSE]
                  ELSE [account EXCEPT !.pc = "acquiring", !.force_refresh = FALSE,
                                       !.attempt = 0, !.refresh_attempt = 0,
                                       !.error = None, !.exhausted = FALSE]
    /\ TokenFrame

\* the call of fetch_properties ends with an exception
FetchPropertiesRaises(error) ==
    [account EXCEPT !.pc = "idle", !.fetches = @ + 1, !.error = error,
                    !.account_token = <<>>]

\* _fetch_account_token, lines 258-323: one iteration: the token of the direct request
\* or, when that is falsy, the one of the auth/session response seen in the page
\* traffic; a truthy token is returned and cached (lines 112-113); after the fifth
\* iteration without one RuntimeError, which the denial branch turns into
\* SessionRefreshError (lines 165-168)
TokenAttempt(via_request, via_page) ==
    /\ account.pc = "acquiring"
    /\ account.attempt < TokenAttempts
    /\ LET token == IF Truthy(via_request) THEN via_request ELSE via_page
       IN  account' =
             IF Truthy(token) /\ account.force_refresh
                /\ account.refresh_attempt >= RefreshAttempts
             THEN [FetchPropertiesRaises("SessionRefreshError")
                     EXCEPT !._account_token = token, !.attempt = account.attempt + 1,
                            !.acquisitions = account.acquisitions + 1]
             ELSE IF Truthy(token)
             THEN [account EXCEPT !.pc = "page", !._account_token = token,
                                  !.account_token = token, !.attempt = @ + 1,
                                  !.acquisitions = @ + 1]
             ELSE IF account.attempt + 1 < TokenAttempts
             THEN [account EXCEPT !.attempt = @ + 1]
             ELSE [FetchPropertiesRaises(IF account.force_refresh
                                         THEN "SessionRefreshError"
                                         ELSE TokenUnavailable)
                     EXCEPT !.attempt = account.attempt + 1, !.exhausted = TRUE]
    /\ TokenFrame

\* lines 259-268: new_page or goto raises (timeout, closed target): the exception
\* leaves the loop at once
TokenAttemptRaises ==
    /\ account.pc = "acquiring"
    /\ account.attempt < TokenAttempts
    /\ account' = [FetchPropertiesRaises("PlaywrightError")
                     EXCEPT !.attempt = account.attempt + 1]
    /\ TokenFrame

\* _fetch_properties_page, lines 128-172: the page is answered; a denied request
\* forces a new token; after the third one the loop is over and SessionRefreshError is
\* raised with no further request (TokenAttempt)
PageAnswered(denied) ==
    /\ account.pc = "page"
    /\ account' =
         IF ~denied
         THEN [account EXCEPT !.pc = "idle", !.fetches = @ + 1, !.account_token = <<>>]
         ELSE [account EXCEPT !.pc = "acquiring", !.force_refresh = TRUE, !.attempt = 0,
                              !.refresh_attempt = @ + 1, !.denied = TRUE]
    /\ TokenFrame

InitSpecToken ==
    /\ InitTables
    /\ InitOrchestrator(DefaultSettings)
    /\ lock = NoTask /\ tasks = <<>> /\ db = NoDatabase /\ login = NoLogin
    /\ resolution = NoResolution /\ ctor = NoConstruction
    /\ fetch = NoFetch /\ otp = NoOtp
    /\ account = NoAccount

NextToken ==
    \/ FetchProperties
    \/ \E r \in TokenAnswers, p \in TokenAnswers : TokenAttempt(r, p)
    \/ TokenAttemptRaises
    \/ \E denied \in BOOLEAN : PageAnswered(denied)

SpecToken == InitSpecToken /\ [][NextToken]_vars

\* a fetch_properties call starts on an instance that holds a token and was never
\* denied: the cached token is used and nothing is acquired
ReuseStep ==
    (/\ account.pc = "idle" /\ account'.pc # "idle"
     /\ account.acquisitions >= 1 /\ ~account.denied)
       => /\ account'.pc = "page"
          /\ account'.account_token = account._account_token
          /\ Truthy(account'.account_token)
          /\ account'.acquisitions = account.acquisitions

\* C30: as long as no request of the instance was denied the token is acquired at most
\* once and every later fetch_properties call uses the cached token; an acquisition
\* makes at most five attempts, and after five attempts without a token it fails.
AccountTokenAcquiredOnce ==
    /\ [](~account.denied => account.acquisitions <= 1)
    /\ [](account.attempt <= 5)
    /\ []((account.pc = "acquiring" => account.attempt < 5)
          /\ (account.error = TokenUnavailable => account.attempt = 5))
    /\ [][ReuseStep]_vars

\* C30 witness: the token came with the fifth attempt of the first call, and two later
\* calls have ended on it with no request denied
TwoCallsReusedTokenOfFifthAttempt ==
    /\ account.fetches = 3
    /\ account.acquisitions = 1
    /\ account.attempt = 5
    /\ ~account.denied
    /\ account.pc = "idle"
    /\ account.error = None


\* C31 as stated: whenever the acquisition of the account token is exhausted during
\* fetch_properties, on the first acquisition as on a refresh after a denied request,
\* the caller gets SessionRefreshError.
TokenExhaustionSurfacesSessionRefreshError ==
    account.exhausted => account.error = "SessionRefreshError"


WarmupTimeouts == {"TimeoutError", "PlaywrightTimeoutError"}

\* the page fetch was ended by a failure of the transport
TransportEnded == client.raised # <<>> /\ client.raised[1].type = "TargetClosedError"

\* C32: a warm-up that times out is followed by the direct request of the same page
\* fetch, and no page fetch ends with the warm-up's timeout as its error.
WarmupTimeoutFallsBackToPost ==
    /\ \A i \in 1..Len(client.events) :
          client.events[i] \in WarmupTimeouts =>
             IF i < Len(client.events) THEN client.events[i + 1] = "post"
             ELSE client.pc = "post" \/ TransportEnded
    /\ client.raised # <<>> => client.raised[1].type \notin WarmupTimeouts

\* C32 witness: the warm-up timed out, the direct request was made and answered, and
\* the page fetch returned its result
ReturnedPostAfterWarmupTimeout ==
    /\ client.pc = "done"
    /\ client.events = <<"PlaywrightTimeoutError", "post">>
    /\ client.returned = <<"post">>
    /\ client.raised = <<>>

\* C39 as stated: the payload a page fetch returns comes from an OK response, whether
\* it was received by the direct request or captured during the warm-up.  (What
\* _fetch_properties_page returns, fetch_properties returns, and the orchestrator
\* stores it and finalizes the run as 'complete', run_scraper.py lines 399-519.)
ReturnedPayloadComesFromOkResponse ==
    client.returned # <<>> => client.response_status = "200"


(***************************************************************************)
(* services/search_client.py: the page loop of fetch_properties.  The      *)
(* backend holds pages 1..MaxPages of a result set; a page beyond them is  *)
(* empty.  A response captured during a warm-up is the one the results     *)
(* page asked for itself: the redirect request of _perform_search_redirect *)
(* (lines 353-399) carries no pagination, so it is the first page.         *)
(***************************************************************************)
MaxPages == 3
MaxRequests == 4   \* page fetches of one fetch_properties call

\* the hotels of page p are named by the page, or the page is empty
SitePages == [hotels : {"none", "some"}, hasNext : BOOLEAN]

Sites == [1..MaxPages -> SitePages]

\* the response of the backend for page p
ResponseOf(site, p) ==
    IF p \in DOMAIN site
    THEN [hotels |-> IF site[p].hotels = "some" THEN <<p>> ELSE <<>>,
          hasNext |-> site[p].hasNext]
    ELSE [hotels |-> <<>>, hasNext |-> FALSE]

FetchFrame ==
    UNCHANGED <<storeVars, call, orchVars, hist, lock, tasks, db, login, account,
                resolution, ctor, otp>>

\* how one call of _fetch_properties_page ends with a response: the warm-up response,
\* the direct POST, or, after a denied POST and the refresh, one of the two again
PageModes == {"warmup", "post", "denied, warmup", "denied, post"}

\* the page whose response this mode yields
AnsweredPage(mode, page_number) ==
    IF mode \in {"warmup", "denied, warmup"} THEN 1 ELSE page_number

\* lines 69-107: one iteration of `while True`: the page is fetched, its hotels are
\* merged, and the loop ends or goes on with the next page
FetchPage(mode) ==
    /\ fetch.pc = "page"
    /\ Len(fetch.requested) < MaxRequests
    /\ mode = "warmup" => (fetch.warmup_page /\ fetch.page_number = fetch.page)
    /\ LET page_response == ResponseOf(fetch.site, AnsweredPage(mode, fetch.page_number))
           page_hotels == page_response.hotels
           aggregated == IF fetch.aggregated = <<>> THEN <<page_hotels>>
                         ELSE <<fetch.aggregated[1] \o page_hotels>>
       IN  fetch' = [fetch EXCEPT
                       !.requested = Append(@, fetch.page_number),
                       !.answered = Append(@, AnsweredPage(mode, fetch.page_number)),
                       !.aggregated = aggregated,
                       !.pc = IF ~page_response.hasNext \/ page_hotels = <<>>
                              THEN "returned" ELSE "page",
                       !.page_number = IF ~page_response.hasNext \/ page_hotels = <<>>
                                       THEN @ ELSE @ + 1]
    /\ FetchFrame

\* _fetch_properties_page raises (session refresh exhausted, backend failure)
FetchPageRaises ==
    /\ fetch.pc = "page"
    /\ fetch' = [fetch EXCEPT !.pc = "raised", !.requested = Append(@, fetch.page_number)]
    /\ FetchFrame

InitSpecPages ==
    /\ InitTables
    /\ InitOrchestrator(DefaultSettings)
    /\ lock = NoTask /\ tasks = <<>> /\ db = NoDatabase /\ login = NoLogin
    /\ account = NoAccount /\ resolution = NoResolution /\ ctor = NoConstruction
    /\ otp = NoOtp
    /\ \E site \in Sites, page \in 1..2, warmup_page \in BOOLEAN :
          fetch = [pc |-> "page", site |-> site, page |-> page,
                   warmup_page |-> warmup_page, page_number |-> page,
                   requested |-> <<>>, answered |-> <<>>, aggregated |-> <<>>]

NextPages ==
    \/ \E mode \in PageModes : FetchPage(mode)
    \/ FetchPageRaises

SpecPages == InitSpecPages /\ [][NextPages]_vars

\* the last page of the result set that a reader starting at page p reaches
RECURSIVE LastPageFrom(_, _)
LastPageFrom(site, p) ==
    IF ~ResponseOf(site, p).hasNext \/ ResponseOf(site, p).hotels = <<>> THEN p
    ELSE LastPageFrom(site, p + 1)

RECURSIVE HotelsOfPages(_, _, _)
HotelsOfPages(site, from, to) ==
    IF from > to THEN <<>>
    ELSE ResponseOf(site, from).hotels \o HotelsOfPages(site, from + 1, to)

\* C33 as stated: fetch_properties fetches the pages params.page, params.page + 1, ...
\* one after the other, each once, up to the first page without a next page or without
\* hotels, and returns the hotels of these pages in page order.
PagesFetchedInOrderAndMerged ==
    /\ fetch.pc \in {"page", "returned"} =>
          /\ fetch.answered = [i \in 1..Len(fetch.answered) |-> fetch.page + i - 1]
          /\ \A i \in 1..Len(fetch.answered) :
                fetch.answered[i] <= LastPageFrom(fetch.site, fetch.page)
    /\ fetch.pc = "returned" =>
          /\ fetch.answered[Len(fetch.answered)] = LastPageFrom(fetch.site, fetch.page)
          /\ fetch.aggregated =
                <<HotelsOfPages(fetch.site, fetch.page, LastPageFrom(fetch.site, fetch.page))>>


(***************************************************************************)
(* utils/otp.py: OtpResolver.obtain_code, and the timing of                *)
(* TwoStepVerifier.maybe_solve (auth/two_step.py, lines 64-116).           *)
(*                                                                         *)
(* otp.pc: "idle"       maybe_solve not called                             *)
(*         "loop_head"  `while await self._challenge_present(page)`        *)
(*         "sleep"      in asyncio.sleep(wait_for)                         *)
(*         "request"    before _select_email_method                        *)
(*         "obtain"     the input was found, before obtain_code            *)
(*         "resolution" the code was submitted                             *)
(*         "returned", "raised"                                            *)
(***************************************************************************)
\* _OTP_REQUEST_COOLDOWN_S = 25.0
OtpRequestCooldownS == 25

\* seconds an awaited step of maybe_solve can take
Delays == {0, 10, 30}

\* the arguments of OtpResolver.__init__; TwoStepVerifier builds one from
\* settings.mfa_secret and the Fastmail settings, or is handed one
Resolvers ==
    [secret : {<<>>, <<"">>, <<"JBSWY3DPEHPK3PXP">>}, prompt : BOOLEAN,
     email_fetcher : BOOLEAN]

\* what email_fetcher.fetch_code does when it is called
FetchOutcomes == {"code", "fails"}

\* a resolver that asks the mailbox before it looks at the secret
ObtainCodeMailFirst(resolver, outcome) ==
    IF resolver.email_fetcher /\ outcome = "code"
    THEN [code |-> <<"mail">>, error |-> None, fetched |-> TRUE, prompted |-> FALSE]
    ELSE IF Truthy(resolver.secret)
    THEN [code |-> <<"totp">>, error |-> None, fetched |-> resolver.email_fetcher,
          prompted |-> FALSE]
    ELSE IF ~resolver.prompt
    THEN [code |-> <<>>, error |-> "RuntimeError", fetched |-> resolver.email_fetcher,
          prompted |-> FALSE]
    ELSE [code |-> <<"typed">>, error |-> None, fetched |-> resolver.email_fetcher,
          prompted |-> TRUE]

\* OtpResolver.obtain_code, lines 41-57: the code or the error, whether fetch_code
\* was called, whether input() was called
ObtainCode(resolver, outcome) ==
    IF Truthy(resolver.secret)
    THEN [code |-> <<"totp">>, error |-> None, fetched |-> FALSE, prompted |-> FALSE]
    ELSE IF resolver.email_fetcher /\ outcome = "code"
    THEN [code |-> <<"mail">>, error |-> None, fetched |-> TRUE, prompted |-> FALSE]
    ELSE IF ~resolver.prompt
    THEN [code |-> <<>>, fetched |-> resolver.email_fetcher, prompted |-> FALSE,
          error |-> IF resolver.email_fetcher
                    THEN "RuntimeError: Failed to obtain OTP via email fetcher"
                    ELSE "RuntimeError: OTP secret not provided and prompting disabled"]
    ELSE [code |-> <<"typed">>, error |-> None, fetched |-> resolver.email_fetcher,
          prompted |-> TRUE]

OtpFrame ==
    UNCHANGED <<storeVars, call, orchVars, hist, lock, tasks, db, login, account,
                resolution, ctor, fetch>>

\* maybe_solve, lines 65-71: the first _challenge_present
MaybeSolve(present) ==
    /\ otp.pc = "idle"
    /\ otp' = [otp EXCEPT !.pc = IF present THEN "loop_head" ELSE "returned"]
    /\ OtpFrame

\* a verifier that asks for the next code at once
NoCooldown(elapsed) == FALSE

\* maybe_solve, line 80: elapsed < _OTP_REQUEST_COOLDOWN_S
InCooldown(elapsed) == elapsed < OtpRequestCooldownS

\* maybe_solve, lines 73-88: the loop condition (it takes d seconds), the attempt
\* counter and the cooldown test
AttemptStart(present, d) ==
    /\ otp.pc = "loop_head"
    /\ LET monotonic == otp.now + d
           attempt == otp.attempt + 1
           elapsed == monotonic - otp.last_code_at[1]
       IN  IF ~present THEN otp' = [otp EXCEPT !.pc = "returned", !.now = monotonic]
           ELSE IF attempt > MaxAttempts
           THEN otp' = [otp EXCEPT !.pc = "raised", !.now = monotonic, !.attempt = attempt,
                   !.error = "Exceeded maximum attempts solving two-step verification"]
           ELSE IF attempt > 1 /\ otp.last_code_at # <<>> /\ InCooldown(elapsed)
           THEN otp' = [otp EXCEPT !.pc = "sleep", !.now = monotonic, !.attempt = attempt,
                                   !.wait_for = OtpRequestCooldownS - elapsed,
                                   !.sleeps = Append(@, [elapsed |-> elapsed,
                                        wait_for |-> OtpRequestCooldownS - elapsed])]
           ELSE otp' = [otp EXCEPT !.pc = "request", !.now = monotonic, !.attempt = attempt]
    /\ OtpFrame

\* maybe_solve, line 88: asyncio.sleep(wait_for) returns after wait_for seconds
Sleep ==
    /\ otp.pc = "sleep"
    /\ otp' = [otp EXCEPT !.pc = "request", !.now = @ + otp.wait_for, !.wait_for = 0]
    /\ OtpFrame

\* maybe_solve, lines 90-93: the email method is selected, which asks for a code, and
\* the input is awaited
RequestCode(input_found) ==
    /\ otp.pc = "request"
    /\ otp' = [otp EXCEPT
                 !.pc = IF input_found THEN "obtain" ELSE "raised",
                 !.error = IF input_found THEN @
                           ELSE "OTP input not found during challenge handling",
                 !.requests = Append(@, [at |-> otp.now, last_code_at |-> otp.last_code_at])]
    /\ OtpFrame

\* maybe_solve, lines 95-106: obtain_code (it takes d seconds), last_code_at, the code
\* is filled in and submitted
ObtainAndFill(outcome, d) ==
    /\ otp.pc = "obtain"
    /\ LET r == ObtainCode(otp.resolver, outcome)
       IN  otp' = IF r.code = <<>>
                  THEN [otp EXCEPT !.pc = "raised", !.error = r.error, !.now = @ + d,
                                   !.outcome = outcome, !.result = <<r>>]
                  ELSE [otp EXCEPT !.pc = "resolution", !.now = @ + d,
                                   !.last_code_at = <<otp.now + d>>,
                                   !.outcome = outcome, !.result = <<r>>]
    /\ OtpFrame

\* maybe_solve, lines 108-114: the wait for the resolution takes d seconds
ChallengeResolved(resolved, locked, d) ==
    /\ otp.pc = "resolution"
    /\ otp' = IF resolved THEN [otp EXCEPT !.pc = "returned", !.now = @ + d]
              ELSE IF locked THEN [otp EXCEPT !.pc = "raised", !.now = @ + d,
                                              !.error = AccountLocked]
              ELSE [otp EXCEPT !.pc = "loop_head", !.now = @ + d]
    /\ OtpFrame

(***************************************************************************)
(* SpecOtp: one call of maybe_solve by a verifier with any resolver; the   *)
(* monotonic clock starts at 0.                                            *)
(***************************************************************************)
InitSpecOtp ==
    /\ InitTables
    /\ InitOrchestrator(DefaultSettings)
    /\ lock = NoTask /\ tasks = <<>> /\ db = NoDatabase /\ login = NoLogin
    /\ account = NoAccount /\ resolution = NoResolution /\ ctor = NoConstruction
    /\ fetch = NoFetch
    /\ \E r \in Resolvers :
          otp = [pc |-> "idle", resolver |-> r, attempt |-> 0, now |-> 0,
                 last_code_at |-> <<>>, wait_for |-> 0, sleeps |-> <<>>,
                 requests |-> <<>>, outcome |-> "none", result |-> <<>>, error |-> None]

NextOtp ==
    \/ \E b \in BOOLEAN : MaybeSolve(b)
    \/ \E b \in BOOLEAN : \E d \in Delays : AttemptStart(b, d)
    \/ Sleep
    \/ \E b \in BOOLEAN : RequestCode(b)
    \/ \E o \in FetchOutcomes : \E d \in Delays : ObtainAndFill(o, d)
    \/ \E r \in BOOLEAN : \E l \in BOOLEAN : \E d \in Delays : ChallengeResolved(r, l, d)

SpecOtp == InitSpecOtp /\ [][NextOtp]_vars

\* C35: every request for a code after the first one is made at least 25 seconds
\* after the previous code was obtained, and a retry that comes earlier sleeps for
\* exactly the remainder of the 25 seconds.
RepeatedAttemptWaitsForCooldown ==
    /\ \A i \in 2..Len(otp.requests) :
          /\ otp.requests[i].last_code_at # <<>>
          /\ otp.requests[i].at - otp.requests[i].last_code_at[1] >= 25
    /\ \A i \in 1..Len(otp.sleeps) :
          /\ otp.sleeps[i].elapsed < 25
          /\ otp.sleeps[i].wait_for = 25 - otp.sleeps[i].elapsed

\* C35 witness: the second request of a code was made after a sleep of 15 seconds
SecondRequestAfterSleep ==
    /\ Len(otp.requests) = 2
    /\ otp.sleeps = <<[elapsed |-> 10, wait_for |-> 15]>>

\* C36: obtain_code returns the generated code without calling the fetcher when a
\* secret is configured; without a secret it returns the code of the fetcher; when
\* the fetcher fails it returns the typed code if prompting is enabled and raises
\* RuntimeError if it is disabled.
ObtainCodeFollowsFixedOrder ==
    otp.result # <<>> =>
        LET r == otp.result[1]
            resolver == otp.resolver
        IN  /\ Truthy(resolver.secret) => r.code = <<"totp">> /\ ~r.fetched /\ ~r.prompted
            /\ (~Truthy(resolver.secret) /\ resolver.email_fetcher) =>
                  /\ r.fetched
                  /\ otp.outcome = "code" => r.code = <<"mail">> /\ ~r.prompted
                  /\ (otp.outcome = "fails" /\ resolver.prompt) =>
                        r.code = <<"typed">> /\ r.prompted
                  /\ (otp.outcome = "fails" /\ ~resolver.prompt) =>
                        /\ r.code = <<>> /\ ~r.prompted
                        /\ otp.pc = "raised"
                        /\ otp.error = "RuntimeError: Failed to obtain OTP via email fetcher"

\* C36 witness: with no secret and a failing fetcher the typed code was submitted
TypedCodeAfterFetcherFailed ==
    /\ otp.pc = "resolution" /\ otp.outcome = "fails"
    /\ ~Truthy(otp.resolver.secret) /\ otp.resolver.email_fetcher
    /\ otp.result[1].code = <<"typed">>


(***************************************************************************)
(* SpecClose: coroutines call finalize_run, mark_run_failed, save_hotels   *)
(* and fetch_latest_run on an initialised store while another coroutine    *)
(* calls close.  close takes no lock: it clears self._connection and       *)
(* closes the connection (lines 129-134).                                  *)
(***************************************************************************)
NotInitialised == "RuntimeError: SQLite store has not been initialised"

\* _require_connection, lines 218-221, at the start of _op: the store has been closed
RequireConnectionRaises(t) ==
    /\ tasks[t].pc = "statement"
    /\ ~Connected
    /\ tasks' = [tasks EXCEPT ![t].pc = "release", ![t].error = NotInitialised]
    /\ UNCHANGED <<storeVars, lock>>
    /\ LockFrame

InitSpecClose == InitSpecLock

NextClose ==
    \/ \E t \in Tasks : \E c \in StoreCalls : c.op # "begin_run" /\ TaskCalls(t, c)
    \/ \E t \in Tasks : Acquire(t)
    \/ \E t \in Tasks : Connected /\ Statement(t)
    \/ \E t \in Tasks : RequireConnectionRaises(t)
    \/ \E t \in Tasks : Release(t)
    \/ Close

SpecClose == InitSpecClose /\ [][NextClose]_vars

\* C40 as stated: the connection is not closed while a call that got the lock on the
\* open store is at its database work; such a call ends without an error; and a call
\* issued after close ends in 'SQLite store has not been initialised'.
CloseWaitsForRunningOperations ==
    \A t \in Tasks :
        /\ (tasks[t].acquired = "open" /\ tasks[t].pc = "statement") => Connected
        /\ (tasks[t].acquired = "open" /\ tasks[t].pc \in {"release", "returned"})
              => tasks[t].error = None
        /\ (tasks[t].started = "closed" /\ tasks[t].pc \in {"release", "returned"})
              => tasks[t].error = NotInitialised

====
